---- MODULE Spec2Model ----
(***************************************************************************)
(* Model of the two numerical kernels of the repository:                   *)
(*   - jacobi.dp.cpp: the JacobiMethod kernel, the finalError kernel, the  *)
(*     three host drivers that iterate it, and the compare-and-swap        *)
(*     atomicAdd;                                                          *)
(*   - convolutionSeparable.dp.cpp: the row and column convolution         *)
(*     kernels and their host entry points.                                *)
(*                                                                         *)
(* float/double values are modelled by integers: + - * and fabs are exact, *)
(* and the division dx /= A[i][i] is modelled by Quot, the quotient        *)
(* rounded toward zero (a deterministic rounding function of the two       *)
(* operands, as the IEEE division is).                                     *)
(*                                                                         *)
(* The launch geometry (N_ROWS, ROWS_PER_CTA, nthreads, the sub-group      *)
(* size, the convolution tile shapes) is scaled down, keeping the          *)
(* relations the code relies on: ROWS_PER_CTA a power of two that divides  *)
(* the sub-group size, nthreads a multiple of the sub-group size.          *)
(***************************************************************************)
EXTENDS Integers, Sequences, FiniteSets, TLC

(***************************************************************************)
(* Program constants (scaled) and bounds of the inputs.                    *)
(***************************************************************************)
N_ROWS == 3
ROWS_PER_CTA == 2
SG_SIZE == 2
MaxCase == 11
MaxThr == 3
MaxIter == 3
ROWS_BLOCKDIM_X == 2
ROWS_BLOCKDIM_Y == 2
ROWS_RESULT_STEPS == 2
ROWS_HALO_STEPS == 1
COLUMNS_BLOCKDIM_X == 2
COLUMNS_BLOCKDIM_Y == 2
COLUMNS_RESULT_STEPS == 2
COLUMNS_HALO_STEPS == 1
KERNEL_RADIUS == 1
MaxImage == 1
MaxKernel == 1
MaxCalls == 2
MaxBlocks == 2
MaxCallers == 3

NBLOCKS == (N_ROWS \div ROWS_PER_CTA) + 2

Rows == 0 .. (N_ROWS - 1)
Groups == 0 .. (NBLOCKS - 1)

(***************************************************************************)
(* State.                                                                  *)
(***************************************************************************)
VARIABLES
    A,          \* device matrix A, A[i][j] (row-major A[i * N_ROWS + j])
    b,          \* device vector b
    x,          \* device iterate buffer x
    x_new,      \* device iterate buffer x_new
    d_sum,      \* device residual accumulator *d_sum
    pre,        \* the kernel arguments' contents when the pass was launched
    nthreads,   \* work-group size of the launch (nthreads.x)
    x_shared,   \* x_shared[g][i]: group g's local copy of the iterate
    b_shared,   \* b_shared[g][s]: group g's ROWS_PER_CTA + 1 residual slots
    lane,       \* lane[g][l]: position and registers of lane l of group g
    nAdds,      \* nAdds[g]: atomic adds group g has made to *sum
    adders,     \* the <<group, lane>> pairs that added to *sum
    rowLog,     \* the <<group, lane, access, row, slot>> accesses of the pass so far
    xWrites,    \* xWrites[i]: how often the pass has written x_new[i]
    conv_threshold, \* driver argument conv_threshold
    max_iter,   \* driver argument max_iter
    init,       \* the caller's x and x_new before a driver is called
    variant,    \* the driver that is running
    hpc,        \* the host's position in the driver
    k,          \* the driver's loop index k
    sum,        \* the driver's host variable sum
    ret,        \* the value the driver returned
    queue,      \* the in-order stream: commands submitted and not yet run
    graph,      \* the nodes of the cudaGraph_t being built or captured
    graphExec,  \* the nodes of the instantiated cudaGraphExec_t (<<>>: NULL)
    capturing,  \* the stream is between BeginCapture and EndCapture
    passes,     \* the JacobiMethod launches the device has run
    finals,     \* the finalError launches the device has run
    readbacks,  \* the values of sum the convergence test has compared
    devlog,     \* every command the device has run, in order
    results,    \* results[v]: what driver v left behind when it returned
    imageW,     \* image width (also the pitch)
    imageH,     \* image height
    c_Kernel,   \* the constant-memory coefficients c_Kernel[0 .. KERNEL_LENGTH - 1]
    d_Src,      \* source image of the current pass, d_Src[row * pitch + column]
    d_Dst,      \* destination image of the current pass
    cstate,     \* "idle", the pass being run ("rows", "cols"), or "aborted"
    ncalls,     \* passes launched so far
    s_Data,     \* s_Data[g][r][c]: the scratch tile of group g
    clane,      \* clane[g][l]: position of lane l = <<x, y>> of group g = <<x, y>>
    cpre,       \* d_Src, d_Dst and c_Kernel when the current pass was launched
    srcReads,   \* the <<column, row>> positions of d_Src the current pass has read
    tileWrites, \* tileWrites[g][r][c]: how often the lanes of group g have stored s_Data[r][c]
    dstWrites,  \* dstWrites[i]: how often the current pass has written d_Dst[i]
    nblocks,    \* number of work-groups of the finalError launch (nblocks.x)
    warpSum,    \* warpSum[g][s]: group g's local array of sub-group totals
    visits,     \* visits[i]: how often the lanes of finalError have read x[i]
    cell,       \* the 64-bit pattern at *address_as_ull
    cell0,      \* the pattern there before the first atomicAdd call
    caller,     \* caller[c]: position, argument val, locals and result of call c
    swaps       \* the successful atomicCAS operations, in order

jacobiVars == <<A, b, x, x_new, d_sum>>
kernelVars == <<pre, nthreads, x_shared, b_shared, lane, nAdds, adders, rowLog, xWrites>>
driverVars == <<conv_threshold, max_iter, init, variant, hpc, k, sum, ret, queue,
                graph, graphExec, capturing, passes, finals, readbacks, devlog,
                results>>
convVars == <<imageW, imageH, c_Kernel, d_Src, d_Dst, cstate, ncalls, s_Data, clane,
              cpre, srcReads, tileWrites, dstWrites>>
finalVars == <<nblocks, warpSum, visits>>
atomicVars == <<cell, cell0, caller, swaps>>
vars == <<jacobiVars, kernelVars, driverVars, convVars, finalVars, atomicVars>>

(***************************************************************************)
(* Arithmetic.                                                             *)
(***************************************************************************)
Abs(v) == IF v < 0 THEN 0 - v ELSE v

\* a / d for d # 0, rounded toward zero
Quot(a, d) ==
    IF (a >= 0) = (d > 0) THEN Abs(a) \div Abs(d) ELSE 0 - (Abs(a) \div Abs(d))

RECURSIVE SumOver(_, _)
SumOver(f, S) ==
    IF S = {} THEN 0
    ELSE LET e == CHOOSE e \in S : TRUE IN f[e] + SumOver(f, S \ {e})

(***************************************************************************)
(* Inputs: matrices with a non-zero diagonal d and an off-diagonal pattern *)
(* q (q = 0: diagonal matrix), vectors base + slope * i.  Input case c     *)
(* selects one combination of matrix, right-hand side, initial iterate and *)
(* initial accumulator content.                                            *)
(***************************************************************************)
Amat(d, q) ==
    [i \in Rows |-> [j \in Rows |->
        IF i = j THEN d ELSE IF q = 0 THEN 0 ELSE ((q * i + j) % 3) - 1]]

Vec(c, s) == [i \in Rows |-> c + s * i]

CaseA(c) == Amat(1 + (c % 2), c % 3)
CaseB(c) == Vec(1 + ((c \div 2) % 2), (c \div 4) % 2)
CaseX(c) == Vec((c \div 3) % 2, (c \div 6) % 2)
CaseS0(c) == (c \div 2) % 2
Cases == 0 .. MaxCase

\* content of local memory and of freshly allocated device memory before
\* the first write
Uninit == 0 - 7

(***************************************************************************)
(* JacobiMethod (jacobi.dp.cpp:57-157), one launch of NBLOCKS groups of    *)
(* nthreads lanes.  pc of a lane:                                          *)
(*   "stage" lines 66-78, "bar1" waiting at the barrier of line 85,        *)
(*   "row"   lines 89-101 for row k, "add" the atomic add of line 104,     *)
(*   "bar2"  waiting at the barrier of line 114,                           *)
(*   "dx"    lines 127-139, "tshfl" waiting at the tile reduction of       *)
(*   lines 144-147, "tadd" lines 152-155, "done".                          *)
(* Steps that touch only a lane's registers and memory no lane writes at   *)
(* that time are folded into the next step that touches shared state.      *)
(***************************************************************************)
Lanes == 0 .. (nthreads - 1)
SubGroups == 0 .. ((nthreads \div SG_SIZE) - 1)
SgLanes(s) == {l \in Lanes : l \div SG_SIZE = s}
SgRank(l) == l % SG_SIZE

\* a mutation of OwnedRow: the group index is left out
OwnedRowNoGroup(g, kk) == kk

\* i = k + group * ROWS_PER_CTA
OwnedRow(g, kk) == kk + g * ROWS_PER_CTA

\* a mutation of Slot: the modulus is the number of rows of a group
SlotModRows(i) == i % ROWS_PER_CTA

\* b_shared[i % (ROWS_PER_CTA + 1)]
Slot(i) == i % (ROWS_PER_CTA + 1)

\* a mutation of StrideIdx: the loop body runs once, without the stride
StrideIdxOnce(l, n) == {j \in Rows : j = l}

\* the indices visited by for (j = lid; j < N_ROWS; j += local_range)
StrideIdx(l, n) == {j \in Rows : j >= l /\ (j - l) % n = 0}

\* (k < ROWS_PER_CTA) && (i < N_ROWS)
RowCond(g, kk) == kk < ROWS_PER_CTA /\ OwnedRow(g, kk) < N_ROWS

\* rowThreadSum of lane l for row i: lines 91-95
RowPartial(Am, xs, i, l, n) ==
    SumOver([j \in Rows |-> Am[i][j] * xs[j]], StrideIdx(l, n))

\* shift left by off inside a (logical) group whose ranks are DOMAIN v; a
\* rank whose source is outside the group keeps its own value
ShflDown(v, off) ==
    [t \in DOMAIN v |-> IF (t + off) \in DOMAIN v THEN v[t + off] ELSE v[t]]

\* a mutation of ShflReduce: the offset is not halved, the loop ends after
\* its first round
ShflReduceOneRound(v, off) ==
    IF off = 0 THEN v
    ELSE [t \in DOMAIN v |-> v[t] + (IF (t + off) \in DOMAIN v THEN v[t + off] ELSE v[t])]

\* for (offset = size / 2; offset > 0; offset /= 2) v += shift_left(v, offset)
RECURSIVE ShflReduce(_, _)
ShflReduce(v, off) ==
    IF off = 0 THEN v
    ELSE ShflReduce([t \in DOMAIN v |-> v[t] + ShflDown(v, off)[t]], off \div 2)

\* a mutation of ThreadRank: every lane of the tile takes itself for rank 0
ThreadRankAllZero(l) == 0

\* tile8.thread_rank()
ThreadRank(l) == l % ROWS_PER_CTA

\* the lanes that enter if (local_id < ROWS_PER_CTA)
InTile(l) == l < ROWS_PER_CTA

LaneInit == [pc |-> "stage", k |-> 0, rowThreadSum |-> 0, temp_sum |-> 0]

\* the state of a launch before any lane has run
LaunchState ==
    /\ x_shared = [g \in Groups |-> [i \in Rows |-> Uninit]]
    /\ b_shared = [g \in Groups |-> [s \in 0 .. ROWS_PER_CTA |-> Uninit]]
    /\ lane = [g \in Groups |-> [l \in Lanes |-> LaneInit]]
    /\ nAdds = [g \in Groups |-> 0]
    /\ adders = {}
    /\ rowLog = {}
    /\ xWrites = [i \in Rows |-> 0]

\* lines 66-78: stage the strided part of x, and b of the owned row
Stage(g, l) ==
    /\ lane[g][l].pc = "stage"
    /\ x_shared' = [x_shared EXCEPT ![g] =
            [i \in Rows |-> IF i \in StrideIdx(l, nthreads) THEN x[i] ELSE @[i]]]
    /\ b_shared' =
            IF InTile(l) /\ RowCond(g, l)
            THEN [b_shared EXCEPT ![g][Slot(OwnedRow(g, l))] = b[OwnedRow(g, l)]]
            ELSE b_shared
    /\ rowLog' =
            IF InTile(l) /\ RowCond(g, l)
            THEN rowLog \cup {<<g, l, "b", OwnedRow(g, l), Slot(OwnedRow(g, l))>>}
            ELSE rowLog
    /\ lane' = [lane EXCEPT ![g][l].pc = "bar1"]
    /\ UNCHANGED <<jacobiVars, pre, nthreads, nAdds, adders, xWrites>>

\* where a lane goes when it has finished row k - 1 of the loop of line 89
RowPc(g, kk) == IF RowCond(g, kk) THEN "row" ELSE "bar2"

\* item_ct1.barrier(), line 85
Barrier1(g) ==
    /\ \A l \in Lanes : lane[g][l].pc = "bar1"
    /\ lane' = [lane EXCEPT ![g] =
            [l \in Lanes |-> [@[l] EXCEPT !.pc = RowPc(g, 0), !.k = 0]]]
    /\ UNCHANGED <<jacobiVars, pre, nthreads, x_shared, b_shared, nAdds, adders, rowLog, xWrites>>

\* lines 91-101 for one sub-group and row k: every lane's partial product
\* sum, then the shuffle reduction; rank 0 goes on to the atomic add
RowReduce(g, s) ==
    /\ \A l \in SgLanes(s) : lane[g][l].pc = "row"
    /\ LET kk == lane[g][s * SG_SIZE].k
           i == OwnedRow(g, kk)
           part == [t \in 0 .. (SG_SIZE - 1) |->
                      RowPartial(A, x_shared[g], i, s * SG_SIZE + t, nthreads)]
           red == ShflReduce(part, SG_SIZE \div 2)
       IN  /\ lane' = [lane EXCEPT ![g] = [l \in Lanes |->
                IF l \notin SgLanes(s) THEN @[l]
                ELSE IF SgRank(l) = 0
                     THEN [@[l] EXCEPT !.pc = "add", !.rowThreadSum = red[0]]
                     ELSE [@[l] EXCEPT !.pc = RowPc(g, kk + 1), !.k = kk + 1]]]
           /\ rowLog' = rowLog \cup {<<g, l, "A", i, Slot(i)>> : l \in SgLanes(s)}
    /\ UNCHANGED <<jacobiVars, pre, nthreads, x_shared, b_shared, nAdds, adders, xWrites>>

\* lines 103-106: atomic_fetch_add(&b_shared[i % (ROWS_PER_CTA + 1)], -rowThreadSum)
AtomicAddRow(g, l) ==
    /\ lane[g][l].pc = "add"
    /\ LET kk == lane[g][l].k
           i == OwnedRow(g, kk)
       IN  /\ b_shared' = [b_shared EXCEPT ![g][Slot(i)] = @ - lane[g][l].rowThreadSum]
           /\ lane' = [lane EXCEPT ![g][l] =
                   [@ EXCEPT !.pc = RowPc(g, kk + 1), !.k = kk + 1, !.rowThreadSum = 0]]
           /\ rowLog' = rowLog \cup {<<g, l, "sub", i, Slot(i)>>}
    /\ UNCHANGED <<jacobiVars, pre, nthreads, x_shared, nAdds, adders, xWrites>>

\* a mutation of Barrier2: a lane leaves the barrier as soon as it arrives
Barrier2NoWait(g) ==
    /\ \E l \in Lanes : lane[g][l].pc = "bar2"
    /\ lane' = [lane EXCEPT ![g] = [l \in Lanes |->
            IF @[l].pc = "bar2"
            THEN [@[l] EXCEPT !.pc = IF InTile(l) THEN "dx" ELSE "done", !.k = 0]
            ELSE @[l]]]
    /\ UNCHANGED <<jacobiVars, pre, nthreads, x_shared, b_shared, nAdds, adders, rowLog, xWrites>>

\* item_ct1.barrier(), line 114; lanes outside the tile have nothing left
Barrier2(g) ==
    /\ \A l \in Lanes : lane[g][l].pc = "bar2"
    /\ lane' = [lane EXCEPT ![g] = [l \in Lanes |->
            [@[l] EXCEPT !.pc = IF InTile(l) THEN "dx" ELSE "done", !.k = 0]]]
    /\ UNCHANGED <<jacobiVars, pre, nthreads, x_shared, b_shared, nAdds, adders, rowLog, xWrites>>

\* dx = b_shared[slot] / A[i][i], line 134-135
DxOf(g, i) == Quot(b_shared[g][Slot(i)], A[i][i])

\* a mutation of Dx: the update is stored into the input iterate
DxInPlace(g, l) ==
    /\ lane[g][l].pc = "dx"
    /\ LET i == OwnedRow(g, l)
       IN  IF RowCond(g, l)
           THEN /\ x' = [x EXCEPT ![i] = x_shared[g][i] + DxOf(g, i)]
                /\ lane' = [lane EXCEPT ![g][l] =
                        [@ EXCEPT !.pc = "tshfl", !.temp_sum = Abs(DxOf(g, i))]]
                /\ rowLog' = rowLog \cup {<<g, l, "dx", i, Slot(i)>>}
                /\ xWrites' = [xWrites EXCEPT ![i] = @ + 1]
           ELSE /\ x' = x
                /\ lane' = [lane EXCEPT ![g][l] = [@ EXCEPT !.pc = "tshfl", !.temp_sum = 0]]
                /\ UNCHANGED <<rowLog, xWrites>>
    /\ UNCHANGED <<A, b, x_new, d_sum, pre, nthreads, x_shared, b_shared, nAdds, adders>>

\* lines 127-139 for a lane of the tile
Dx(g, l) ==
    /\ lane[g][l].pc = "dx"
    /\ LET i == OwnedRow(g, l)
       IN  IF RowCond(g, l)
           THEN /\ x_new' = [x_new EXCEPT ![i] = x_shared[g][i] + DxOf(g, i)]
                /\ lane' = [lane EXCEPT ![g][l] =
                        [@ EXCEPT !.pc = "tshfl", !.temp_sum = Abs(DxOf(g, i))]]
                /\ rowLog' = rowLog \cup {<<g, l, "dx", i, Slot(i)>>}
                /\ xWrites' = [xWrites EXCEPT ![i] = @ + 1]
           ELSE /\ x_new' = x_new
                /\ lane' = [lane EXCEPT ![g][l] = [@ EXCEPT !.pc = "tshfl", !.temp_sum = 0]]
                /\ UNCHANGED <<rowLog, xWrites>>
    /\ UNCHANGED <<A, b, x, d_sum, pre, nthreads, x_shared, b_shared, nAdds, adders>>

\* lines 144-152: the reduction over the tile of ROWS_PER_CTA lanes; the
\* lanes that are not thread_rank 0 are finished
TileReduce(g) ==
    /\ \A l \in Lanes : InTile(l) => lane[g][l].pc = "tshfl"
    /\ LET part == [t \in 0 .. (ROWS_PER_CTA - 1) |-> lane[g][t].temp_sum]
           red == ShflReduce(part, ROWS_PER_CTA \div 2)
       IN  lane' = [lane EXCEPT ![g] = [l \in Lanes |->
                IF ~InTile(l) THEN @[l]
                ELSE IF ThreadRank(l) = 0
                     THEN [@[l] EXCEPT !.pc = "tadd", !.temp_sum = red[l]]
                     ELSE [@[l] EXCEPT !.pc = "done", !.temp_sum = 0]]]
    /\ UNCHANGED <<jacobiVars, pre, nthreads, x_shared, b_shared, nAdds, adders, rowLog, xWrites>>

\* lines 152-155: atomic_fetch_add(sum, temp_sum)
AtomicAddSum(g, l) ==
    /\ lane[g][l].pc = "tadd"
    /\ d_sum' = d_sum + lane[g][l].temp_sum
    /\ nAdds' = [nAdds EXCEPT ![g] = @ + 1]
    /\ adders' = adders \cup {<<g, l>>}
    /\ UNCHANGED <<rowLog, xWrites>>
    /\ lane' = [lane EXCEPT ![g][l] = [@ EXCEPT !.pc = "done", !.temp_sum = 0]]
    /\ UNCHANGED <<A, b, x, x_new, pre, nthreads, x_shared, b_shared>>

KernelDone == \A g \in Groups : \A l \in Lanes : lane[g][l].pc = "done"

\* the variables of the atomicAdd calls while none is made
AtomicIdle == cell = 0 /\ cell0 = 0 /\ caller = <<>> /\ swaps = <<>>

\* the variables of a finalError launch while none is run at lane level
FinalIdle == nblocks = 0 /\ warpSum = <<>> /\ visits = <<>>

\* the convolution's variables while it is not used
ConvIdle ==
    /\ imageW = 0 /\ imageH = 0 /\ c_Kernel = <<>> /\ d_Src = <<>> /\ d_Dst = <<>>
    /\ cstate = "unused" /\ ncalls = 0 /\ s_Data = <<>> /\ clane = <<>>
    /\ cpre = <<>> /\ srcReads = {} /\ tileWrites = <<>> /\ dstWrites = <<>>

\* the driver's variables while no driver is running
DriverIdle ==
    /\ conv_threshold = 0 /\ max_iter = 0 /\ init = <<>>
    /\ variant = "none" /\ hpc = "idle" /\ k = 0 /\ sum = 0 /\ ret = 0
    /\ queue = <<>> /\ graph = <<>> /\ graphExec = <<>> /\ capturing = FALSE
    /\ passes = <<>> /\ finals = <<>> /\ readbacks = <<>> /\ devlog = <<>>
    /\ results = <<>>

(***************************************************************************)
(* SpecKernel: one launch JacobiMethod(A, b, conv_threshold, x, x_new,     *)
(* d_sum) from every input case, all interleavings of lanes and groups.    *)
(***************************************************************************)
KernelInit ==
    /\ \E c \in Cases :
          /\ A = CaseA(c)
          /\ b = CaseB(c)
          /\ x = CaseX(c)
          /\ d_sum = CaseS0(c)
    /\ x_new = [i \in Rows |-> 0]
    /\ pre = [x |-> x, x_new |-> x_new, d_sum |-> d_sum]
    /\ nthreads \in {SG_SIZE, 2 * SG_SIZE}
    /\ LaunchState
    /\ DriverIdle
    /\ ConvIdle
    /\ FinalIdle
    /\ AtomicIdle

KernelNext ==
    /\ \/ \E g \in Groups, l \in Lanes : Stage(g, l)
       \/ \E g \in Groups : Barrier1(g)
       \/ \E g \in Groups, s \in SubGroups : RowReduce(g, s)
       \/ \E g \in Groups, l \in Lanes : AtomicAddRow(g, l)
       \/ \E g \in Groups : Barrier2(g)
       \/ \E g \in Groups, l \in Lanes : Dx(g, l)
       \/ \E g \in Groups : TileReduce(g)
       \/ \E g \in Groups, l \in Lanes : AtomicAddSum(g, l)
    /\ UNCHANGED <<driverVars, convVars, finalVars, atomicVars>>

SpecKernel == KernelInit /\ [][KernelNext]_vars

(***************************************************************************)
(* Claims about one JacobiMethod pass (SpecKernel).                        *)
(***************************************************************************)
\* SUM_j A[i][j] * xv[j]
RowDot(Am, xv, i) == SumOver([j \in Rows |-> Am[i][j] * xv[j]], Rows)

\* the Jacobi update of row i from the iterate xv
JacobiDx(Am, bv, xv, i) == Quot(bv[i] - RowDot(Am, xv, i), Am[i][i])

\* C1: after a complete pass, for every row i,
\* x_new[i] = x[i] + (b[i] - SUM_j A[i][j] * x[j]) / A[i][i], x being the
\* input iterate as it was before the pass, whatever the interleaving.
C1_PassComputesUpdate ==
    KernelDone =>
        \A i \in Rows : x_new[i] = pre.x[i] + JacobiDx(A, b, pre.x, i)

\* C1 witness: a finished pass of two sub-groups per group that moved the
\* iterate in some row and left it in another.
C1_Witness ==
    /\ KernelDone
    /\ nthreads = 2 * SG_SIZE
    /\ \E i \in Rows : x_new[i] # pre.x[i]
    /\ \E i \in Rows : JacobiDx(A, b, pre.x, i) < 0

\* the rows owned by group g
OwnedRows(g) == {i \in Rows : i \div ROWS_PER_CTA = g}

\* SUM of |dx_i| over the rows in S
AbsDxSum(S) == SumOver([i \in Rows |-> Abs(JacobiDx(A, b, pre.x, i))], S)

\* C2: the accumulator always holds its initial value plus the totals
\* SUM |dx_i| of the groups that have added, each group adds at most once
\* and only through lane 0 of its tile; after the pass every group has
\* added once, so the accumulator is s0 + SUM_i |dx_i|.
C2_AccumulatorIsSumOfAbsDx ==
    /\ d_sum = pre.d_sum
                 + SumOver([g \in Groups |-> nAdds[g] * AbsDxSum(OwnedRows(g))], Groups)
    /\ \A g \in Groups : nAdds[g] <= 1
    /\ adders \subseteq {<<g, 0>> : g \in Groups}
    /\ KernelDone =>
          /\ \A g \in Groups : nAdds[g] = 1
          /\ d_sum = pre.d_sum + AbsDxSum(Rows)

\* C2 witness: a finished pass with a non-zero initial accumulator in which
\* two groups contributed non-zero totals.
C2_Witness ==
    /\ KernelDone
    /\ pre.d_sum > 0
    /\ AbsDxSum(OwnedRows(0)) > 0
    /\ AbsDxSum(OwnedRows(1)) > 0
    /\ d_sum > pre.d_sum

\* the positions after the first and after the second barrier
AfterBarrier1 == {"row", "add", "bar2", "dx", "tshfl", "tadd", "done"}
AfterBarrier2 == {"dx", "tshfl", "tadd", "done"}

\* C14: within one pass, for every interleaving of a group's lanes,
\* (a) when a lane is past the first barrier (it reads x_shared and adds
\* into b_shared) every lane of the group has finished staging: x_shared
\* holds all of x and no lane is still staging; (b) when a lane is past the
\* second barrier (it reads b_shared for dx) every lane has finished the row
\* loop, so every owned row's slot holds b[i] - SUM_j A[i][j] * x[j], the
\* partial sums of all sub-groups included.
C14_PhasesSeparatedByBarriers ==
    \A g \in Groups :
        /\ (\E l \in Lanes : lane[g][l].pc \in AfterBarrier1) =>
                /\ \A m \in Lanes : lane[g][m].pc \in AfterBarrier1
                /\ x_shared[g] = x
        /\ (\E l \in Lanes : lane[g][l].pc \in AfterBarrier2) =>
                /\ \A m \in Lanes : lane[g][m].pc \in AfterBarrier2
                /\ \A i \in OwnedRows(g) :
                        b_shared[g][Slot(i)] = b[i] - RowDot(A, x, i)

\* C14 witness: two sub-groups per group; in a group that owns two rows one
\* lane of the tile is about to read its slot for dx and the other has done
\* so, while another group is still in its row loop.
C14_Witness ==
    /\ nthreads = 2 * SG_SIZE
    /\ lane[0][0].pc = "dx"
    /\ lane[0][1].pc = "tshfl"
    /\ \E i \in OwnedRows(0) : RowDot(A, x, i) # 0
    /\ \E l \in Lanes : lane[1][l].pc = "add"

\* the accesses of one kind in the log, and the rows a group owns by the
\* loop conditions of lines 71-74, 89-90 and 129-131
LogOf(op) == {e \in rowLog : e[3] = op}
LoopRows(g) == {OwnedRow(g, kk) : kk \in {t \in 0 .. (ROWS_PER_CTA - 1) : RowCond(g, t)}}

\* C24: with N_ROWS not a multiple of ROWS_PER_CTA and the grid of
\* N_ROWS / ROWS_PER_CTA + 2 groups, every row i < N_ROWS is owned by
\* exactly one group, group i div ROWS_PER_CTA; x_new[i] is written at most
\* once during the pass and exactly once, by one lane, when it has finished;
\* no lane reads A or b or writes x_new at a row >= N_ROWS, or at a row of
\* another group; a group that owns no row accesses nothing and adds 0 to
\* the accumulator.
C24_EveryRowOwnedAndWrittenOnce ==
    /\ \A i \in Rows : {g \in Groups : i \in LoopRows(g)} = {i \div ROWS_PER_CTA}
    /\ \A e \in rowLog : e[4] \in Rows /\ e[1] = e[4] \div ROWS_PER_CTA
    /\ DOMAIN x_new = Rows
    /\ \A i \in Rows :
            /\ xWrites[i] <= 1
            /\ Cardinality({e \in LogOf("dx") : e[4] = i}) = xWrites[i]
            /\ KernelDone => xWrites[i] = 1
    /\ \A g \in Groups :
            LoopRows(g) = {} =>
                /\ \A e \in rowLog : e[1] # g
                /\ \A l \in Lanes : lane[g][l].temp_sum = 0
                /\ KernelDone => nAdds[g] = 1

\* C24 witness: a finished pass in which the last row is the only row of
\* its group, the last group owns no row and has made its add, and every
\* row has been written.
C24_Witness ==
    /\ KernelDone
    /\ N_ROWS % ROWS_PER_CTA # 0
    /\ LoopRows(NBLOCKS - 2) = {N_ROWS - 1}
    /\ LoopRows(NBLOCKS - 1) = {}
    /\ <<NBLOCKS - 1, 0>> \in adders
    /\ \A i \in Rows : xWrites[i] = 1 /\ x_new[i] # pre.x_new[i]

\* the lanes that multiply and accumulate column j (lines 91-95)
ColumnLanes(j) == {l \in Lanes : j \in StrideIdx(l, nthreads)}

\* lane partials of a sub-group of w lanes: the products of row i of A
\* with the staged iterate, dealt to the lanes in turn
WidePartials(g, i, w) ==
    [t \in 0 .. (w - 1) |->
        A[i][t % N_ROWS] * x_shared[g][(t + i) % N_ROWS] + (t \div N_ROWS)]

\* C27: for each owned row, every column j < N_ROWS is multiplied and
\* accumulated by exactly one lane; after the offset-halving shift loop
\* lane 0 of a sub-group holds the sum of the partials of all lanes of the
\* sub-group (for sub-groups of SG_SIZE lanes as launched, and for the
\* loop run over 2, 4 and 8 lanes); and after the second barrier the row's
\* slot holds b[i] - SUM_j A[i][j] * x[j], in whatever order the
\* sub-groups' adds landed.
C27_RowReductionSumsEveryColumnOnce ==
    /\ \A j \in Rows : Cardinality(ColumnLanes(j)) = 1
    /\ \A g \in Groups : \A l \in Lanes :
            lane[g][l].pc = "add" =>
                LET i == OwnedRow(g, lane[g][l].k)
                IN  /\ SgRank(l) = 0
                    /\ lane[g][l].rowThreadSum =
                          SumOver([m \in Lanes |-> RowPartial(A, x, i, m, nthreads)],
                                  SgLanes(l \div SG_SIZE))
    /\ \A g \in Groups : \A i \in LoopRows(g) : \A w \in {2, 4, 8} :
            (\E l \in Lanes : lane[g][l].pc \in AfterBarrier1) =>
                ShflReduce(WidePartials(g, i, w), w \div 2)[0]
                    = SumOver(WidePartials(g, i, w), 0 .. (w - 1))
    /\ \A g \in Groups :
            (\E l \in Lanes : lane[g][l].pc \in AfterBarrier2) =>
                \A i \in LoopRows(g) :
                    /\ b_shared[g][Slot(i)] = b[i] - RowDot(A, x, i)
                    /\ Cardinality({e \in LogOf("sub") : e[1] = g /\ e[4] = i})
                          = Cardinality(SubGroups)

\* C27 witness: two sub-groups per group; in a group that owns two rows the
\* add of one sub-group for the second row has landed and the other's is
\* pending with a non-zero sum, the sub-groups having passed each other.
C27_Witness ==
    /\ nthreads = 2 * SG_SIZE
    /\ lane[0][0].pc = "add" /\ lane[0][0].k = 1 /\ lane[0][0].rowThreadSum # 0
    /\ lane[0][SG_SIZE].pc = "bar2"
    /\ <<0, SG_SIZE, "sub", 1, Slot(1)>> \in rowLog
    /\ \E j \in Rows : A[1][j] * x[j] # 0 /\ ColumnLanes(j) = {SG_SIZE}

\* C28: within a group the ROWS_PER_CTA consecutive rows starting at
\* group * ROWS_PER_CTA map through i % (ROWS_PER_CTA + 1) to pairwise
\* distinct slots of b_shared, all in 0 .. ROWS_PER_CTA; every access of the
\* pass to a row's slot (staging b, subtracting a row sum, reading for dx)
\* uses that slot, so two accesses of a group use the same slot exactly
\* when they are for the same row.
C28_SlotsDistinctAndConsistent ==
    /\ \A g \in Groups : \A kk, mm \in 0 .. (ROWS_PER_CTA - 1) :
            /\ Slot(OwnedRow(g, kk)) \in 0 .. ROWS_PER_CTA
            /\ kk # mm => Slot(OwnedRow(g, kk)) # Slot(OwnedRow(g, mm))
    /\ \A g \in Groups : DOMAIN b_shared[g] = 0 .. ROWS_PER_CTA
    /\ \A e \in rowLog :
            /\ e[4] \in {OwnedRow(e[1], kk) : kk \in 0 .. (ROWS_PER_CTA - 1)}
            /\ e[5] = e[4] % (ROWS_PER_CTA + 1)
            /\ e[5] \in DOMAIN b_shared[e[1]]
    /\ \A e, f \in rowLog : e[1] = f[1] => ((e[4] = f[4]) <=> (e[5] = f[5]))

\* C28 witness: a group has staged b for its two rows, subtracted row sums
\* from both slots and read both for dx, and the group after it, whose rows
\* start at another residue, has used its slot too.
C28_Witness ==
    /\ \A op \in {"b", "sub", "dx"} : \A i \in LoopRows(0) :
            \E e \in LogOf(op) : e[1] = 0 /\ e[4] = i
    /\ Cardinality(LoopRows(0)) = ROWS_PER_CTA
    /\ \E e \in LogOf("dx") : e[1] = 1 /\ e[5] # e[4] % ROWS_PER_CTA

(***************************************************************************)
(* finalError (jacobi.dp.cpp:159-213), one launch of nblocks groups of     *)
(* nthreads lanes on x and the accumulator d_sum (g_sum).  pc of a lane:   *)
(*   "sum"   lines 165-181, the strided partial sum and its reduction in   *)
(*           the sub-group, "store" lines 183-186, "bar" waiting at the    *)
(*           barrier of line 193, "block" lines 195-205, the reduction of  *)
(*           the sub-group totals in the first sub-group, "gadd" the       *)
(*           atomic add of lines 206-209, "done".                          *)
(* The literal 32 of line 202 is the sub-group size the launch requires    *)
(* (reqd_sub_group_size(32)), SG_SIZE here.                                *)
(***************************************************************************)
FGroups == 0 .. (nblocks - 1)

\* group * local_range + local_id
GlobalThreadId(g, l) == g * nthreads + l

\* a mutation of GridStride: the stride of one group instead of the grid
GridStrideOfGroup(n, nb) == n

\* local_range * group_range
GridStride(n, nb) == n * nb

\* the indices visited by for (i = globalThreadId; i < N_ROWS; i += stride)
FinalIdx(g, l) ==
    {i \in Rows : i >= GlobalThreadId(g, l)
                    /\ (i - GlobalThreadId(g, l)) % GridStride(nthreads, nblocks) = 0}

\* sum of lane l of group g: lines 170-174
FinalPartial(g, l) == SumOver([i \in Rows |-> Abs(x[i] - 1)], FinalIdx(g, l))

\* count one more read of each index of S
CountVisits(f, S) == [i \in DOMAIN f |-> f[i] + (IF i \in S THEN 1 ELSE 0)]

FinalLaneInit == [pc |-> "sum", sum |-> 0, blockSum |-> 0]

\* lines 165-181 for one sub-group: every lane's partial sum, then the
\* shuffle reduction; rank 0 goes on to store the total
FinalWarpReduce(g, s) ==
    /\ \A l \in SgLanes(s) : lane[g][l].pc = "sum"
    /\ LET part == [t \in 0 .. (SG_SIZE - 1) |-> FinalPartial(g, s * SG_SIZE + t)]
           red == ShflReduce(part, SG_SIZE \div 2)
       IN  lane' = [lane EXCEPT ![g] = [l \in Lanes |->
                IF l \notin SgLanes(s) THEN @[l]
                ELSE IF SgRank(l) = 0
                     THEN [@[l] EXCEPT !.pc = "store", !.sum = red[0]]
                     ELSE [@[l] EXCEPT !.pc = "bar"]]]
    /\ visits' = CountVisits(visits, UNION {FinalIdx(g, l) : l \in SgLanes(s)})
    /\ UNCHANGED <<x, d_sum, pre, nthreads, nblocks, warpSum, nAdds, adders, rowLog, xWrites>>

\* lines 183-186: warpSum[local_id / sub-group size] = sum
FinalStore(g, l) ==
    /\ lane[g][l].pc = "store"
    /\ warpSum' = [warpSum EXCEPT ![g][l \div SG_SIZE] = lane[g][l].sum]
    /\ lane' = [lane EXCEPT ![g][l].pc = "bar"]
    /\ UNCHANGED <<x, d_sum, pre, nthreads, nblocks, visits, nAdds, adders, rowLog, xWrites>>

\* item_ct1.barrier(), line 193; only the lanes with local_id < 32 go on
\* to the second reduction
FinalBarrier(g) ==
    /\ \A l \in Lanes : lane[g][l].pc = "bar"
    /\ lane' = [lane EXCEPT ![g] = [l \in Lanes |->
            [@[l] EXCEPT !.pc = IF l < SG_SIZE THEN "block" ELSE "done"]]]
    /\ UNCHANGED <<x, d_sum, pre, nthreads, nblocks, warpSum, visits, nAdds, adders, rowLog, xWrites>>

\* lines 195-200: blockSum = warpSum[local_id] for local_id < number of
\* sub-groups, 0 otherwise
BlockSumOf(g, l) == IF l < nthreads \div SG_SIZE THEN warpSum[g][l] ELSE 0

\* lines 202-205: the shuffle reduction of blockSum in the first sub-group
FinalBlockReduce(g) ==
    /\ \A l \in SgLanes(0) : lane[g][l].pc = "block"
    /\ LET part == [t \in 0 .. (SG_SIZE - 1) |-> BlockSumOf(g, t)]
           red == ShflReduce(part, SG_SIZE \div 2)
       IN  lane' = [lane EXCEPT ![g] = [l \in Lanes |->
                IF l \notin SgLanes(0) THEN @[l]
                ELSE IF SgRank(l) = 0
                     THEN [@[l] EXCEPT !.pc = "gadd", !.blockSum = red[0]]
                     ELSE [@[l] EXCEPT !.pc = "done"]]]
    /\ UNCHANGED <<x, d_sum, pre, nthreads, nblocks, warpSum, visits, nAdds, adders, rowLog, xWrites>>

\* lines 206-209: atomic_fetch_add(g_sum, blockSum)
FinalAtomicAdd(g, l) ==
    /\ lane[g][l].pc = "gadd"
    /\ d_sum' = d_sum + lane[g][l].blockSum
    /\ nAdds' = [nAdds EXCEPT ![g] = @ + 1]
    /\ adders' = adders \cup {<<g, l>>}
    /\ UNCHANGED <<rowLog, xWrites>>
    /\ lane' = [lane EXCEPT ![g][l].pc = "done"]
    /\ UNCHANGED <<x, pre, nthreads, nblocks, warpSum, visits>>

FinalDone == \A g \in FGroups : \A l \in Lanes : lane[g][l].pc = "done"

\* the vectors finalError is run on: base + slope * i
FinalX(c) == Vec(c % 3, c \div 3)

(***************************************************************************)
(* SpecFinal: one launch finalError(x, d_sum) from every input case, with  *)
(* a block size that is a multiple of the sub-group size and has at most   *)
(* SG_SIZE sub-groups, all interleavings of lanes and groups.              *)
(***************************************************************************)
FinalInit ==
    /\ \E c \in Cases : x = FinalX(c) /\ d_sum = CaseS0(c)
    /\ nthreads \in {SG_SIZE, 2 * SG_SIZE}
    /\ nblocks \in 1 .. MaxBlocks
    /\ pre = [x |-> x, d_sum |-> d_sum]
    /\ warpSum = [g \in FGroups |-> [s \in 0 .. (nthreads \div SG_SIZE) |-> Uninit]]
    /\ visits = [i \in Rows |-> 0]
    /\ lane = [g \in FGroups |-> [l \in Lanes |-> FinalLaneInit]]
    /\ nAdds = [g \in FGroups |-> 0]
    /\ adders = {}
    /\ rowLog = {} /\ xWrites = <<>>
    /\ A = <<>> /\ b = <<>> /\ x_new = <<>> /\ x_shared = <<>> /\ b_shared = <<>>
    /\ DriverIdle
    /\ ConvIdle
    /\ AtomicIdle

FinalNext ==
    /\ \/ \E g \in FGroups, s \in SubGroups : FinalWarpReduce(g, s)
       \/ \E g \in FGroups, l \in Lanes : FinalStore(g, l)
       \/ \E g \in FGroups : FinalBarrier(g)
       \/ \E g \in FGroups : FinalBlockReduce(g)
       \/ \E g \in FGroups, l \in Lanes : FinalAtomicAdd(g, l)
    /\ UNCHANGED <<A, b, x_new, x_shared, b_shared, driverVars, convVars, atomicVars>>

SpecFinal == FinalInit /\ [][FinalNext]_vars

(***************************************************************************)
(* Claims about one finalError launch (SpecFinal).                         *)
(***************************************************************************)
\* the partial sums of the lanes in S of group g
PartialsOf(g, S) == SumOver([l \in Lanes |-> FinalPartial(g, l)], S)

\* C18: one finalError launch started with g_sum = g0 ends with
\* g_sum = g0 + SUM_{i < N_ROWS} |x[i] - 1| for every interleaving: no index
\* is read twice and in the end each once; a stored sub-group total is the
\* sum of its lanes' partials; the total a group adds is the sum of all its
\* lanes' partials, and it adds it once, through lane 0.
C18_FinalErrorAddsL1Error ==
    /\ \A i \in Rows : visits[i] <= 1
    /\ \A g \in FGroups :
        /\ nAdds[g] <= 1
        /\ \A s \in SubGroups :
              lane[g][s * SG_SIZE].pc \notin {"sum", "store"} =>
                  warpSum[g][s] = PartialsOf(g, SgLanes(s))
        /\ lane[g][0].pc = "gadd" => lane[g][0].blockSum = PartialsOf(g, Lanes)
    /\ adders \subseteq {<<g, 0>> : g \in FGroups}
    /\ d_sum = pre.d_sum + SumOver([g \in FGroups |-> nAdds[g] * PartialsOf(g, Lanes)],
                                   FGroups)
    /\ FinalDone =>
          /\ \A i \in Rows : visits[i] = 1
          /\ \A g \in FGroups : nAdds[g] = 1
          /\ d_sum = pre.d_sum + SumOver([i \in Rows |-> Abs(pre.x[i] - 1)], Rows)

\* C18 witness: a finished launch of a group of two sub-groups, started
\* with a non-zero accumulator, on a vector with entries on both sides of
\* 1, in which both sub-groups stored a non-zero total.
C18_Witness ==
    /\ FinalDone
    /\ nthreads = 2 * SG_SIZE
    /\ pre.d_sum > 0
    /\ \E i \in Rows : x[i] < 1
    /\ \E i \in Rows : x[i] > 1
    /\ \A s \in SubGroups : warpSum[0][s] > 0
    /\ d_sum > pre.d_sum

(***************************************************************************)
(* The host drivers (jacobi.dp.cpp:215-833).  The stream is an in-order    *)
(* queue: the host appends commands, the device runs the head command to   *)
(* completion (every group of a launch included) before the next one, and  *)
(* stream->wait() blocks the host until the queue is empty.  A launch is   *)
(* one device step whose effect is that of the complete pass.              *)
(***************************************************************************)
Variants == <<"Gpu", "SetParams", "ExecUpdate">>

Buf(name) == IF name = "x" THEN x ELSE x_new

MemsetCmd == [op |-> "memset", rd |-> "-", wr |-> "d_sum"]
MemcpyCmd == [op |-> "memcpy", rd |-> "d_sum", wr |-> "sum"]
JacobiCmd(rd, wr) == [op |-> "JacobiMethod", rd |-> rd, wr |-> wr]
FinalCmd(buf) == [op |-> "finalError", rd |-> buf, wr |-> "d_sum"]

\* SUM_i |v_i - 1|: one complete finalError launch adds this to *g_sum
FinalErrorOf(v) == SumOver([i \in Rows |-> Abs(v[i] - 1)], Rows)

\* the output iterate and the residual of one complete JacobiMethod launch
PassOut(xin) == [i \in Rows |-> xin[i] + JacobiDx(A, b, xin, i)]
PassRes(xin) == SumOver([i \in Rows |-> Abs(JacobiDx(A, b, xin, i))], Rows)

At(v, p) == variant = v /\ hpc = p

\* submit cmd to the stream: recorded into the graph while capturing
Submit(cmd) ==
    IF capturing
    THEN graph' = Append(graph, cmd) /\ queue' = queue
    ELSE queue' = Append(queue, cmd) /\ graph' = graph

hostRest == <<A, b, x, x_new, conv_threshold, max_iter, init, variant, ret,
              passes, finals, devlog, results>>

\* double sum = 0.0; d_sum = malloc_device(1); k = 0 (lines 666-670,
\* 233-236, 437-442)
Begin(v, to) ==
    /\ At(v, "begin")
    /\ sum' = 0 /\ d_sum' = Uninit /\ k' = 0 /\ hpc' = to
    /\ UNCHANGED <<A, b, x, x_new, conv_threshold, max_iter, init, variant, ret,
                   queue, capturing, passes, finals, readbacks, devlog, results>>

\* a step of the host that only moves on
Goto(v, from, to) ==
    /\ At(v, from) /\ hpc' = to
    /\ UNCHANGED <<d_sum, k, sum, readbacks, hostRest>>

\* a step of the host that submits cmd
Emit(v, from, to, cmd) ==
    /\ At(v, from) /\ hpc' = to /\ Submit(cmd)
    /\ UNCHANGED <<d_sum, k, sum, readbacks, graphExec, capturing, hostRest>>

\* for (k = 0; k < max_iter; k++): the test
LoopTest(v, body) ==
    /\ Goto(v, "loop", IF k < max_iter THEN body ELSE "free")
    /\ UNCHANGED <<queue, graph, graphExec, capturing>>

\* stream->wait()
Wait(v, from, to) ==
    /\ queue = <<>>
    /\ Goto(v, from, to)
    /\ UNCHANGED <<queue, graph, graphExec, capturing>>

\* if (sum <= conv_threshold) { ... break; } and k++ otherwise
ConvTest(v) ==
    /\ At(v, "test")
    /\ readbacks' = Append(readbacks, sum)
    /\ IF sum <= conv_threshold
       THEN hpc' = "fmemset" /\ k' = k
       ELSE hpc' = "loop" /\ k' = k + 1
    /\ UNCHANGED <<d_sum, sum, queue, graph, graphExec, capturing, hostRest>>

\* dpct_free(d_sum); return sum;
Return(v) ==
    /\ At(v, "free")
    /\ ret' = sum
    /\ hpc' = "ret"
    /\ results' = [results EXCEPT ![v] =
            [x |-> x, x_new |-> x_new, k |-> k, ret |-> sum, passes |-> Len(passes),
             finals |-> Len(finals), devlog |-> devlog]]
    /\ UNCHANGED <<A, b, x, x_new, d_sum, conv_threshold, max_iter, init, variant, k,
                   sum, queue, graph, graphExec, capturing, passes, finals,
                   readbacks, devlog>>

(***************************************************************************)
(* JacobiMethodGpu (lines 658-833).                                        *)
(***************************************************************************)
\* a mutation of GpuKernelArgs: the parity test reversed
GpuKernelArgsSwapped(kk) ==
    IF (kk % 2) = 0 THEN JacobiCmd("x_new", "x") ELSE JacobiCmd("x", "x_new")

\* lines 674-746: JacobiMethod(A, b, conv_threshold, x, x_new, d_sum) when
\* (k & 1) == 0, JacobiMethod(A, b, conv_threshold, x_new, x, d_sum) otherwise
GpuKernelArgs(kk) ==
    IF (kk % 2) = 0 THEN JacobiCmd("x", "x_new") ELSE JacobiCmd("x_new", "x")

\* lines 767-813: finalError(x_new, ...) when (k & 1) == 0, finalError(x, ...)
GpuFinalBuf(kk) == IF (kk % 2) = 0 THEN "x_new" ELSE "x"

GpuBegin == Begin("Gpu", "loop") /\ UNCHANGED <<graph, graphExec>>
\* a mutation of GpuLoop: the loop test is k <= max_iter
GpuLoopOffByOne ==
    /\ Goto("Gpu", "loop", IF k <= max_iter THEN "memset" ELSE "free")
    /\ UNCHANGED <<queue, graph, graphExec, capturing>>
GpuLoop == LoopTest("Gpu", "memset")
\* a mutation of GpuMemset: the accumulator is not reset before the pass
GpuMemsetSkipped ==
    Goto("Gpu", "memset", "submit") /\ UNCHANGED <<queue, graph, graphExec, capturing>>
GpuMemset == Emit("Gpu", "memset", "submit", MemsetCmd)
GpuSubmit == Emit("Gpu", "submit", "memcpy", GpuKernelArgs(k))
GpuMemcpy == Emit("Gpu", "memcpy", "wait", MemcpyCmd)
\* a mutation of GpuWait: the host goes on without waiting for the stream
GpuWaitNoBlock ==
    Goto("Gpu", "wait", "test") /\ UNCHANGED <<queue, graph, graphExec, capturing>>
GpuWait == Wait("Gpu", "wait", "test")
\* a mutation of GpuTest: the loop goes on after the residual has converged
GpuTestNoBreak ==
    /\ At("Gpu", "test")
    /\ readbacks' = Append(readbacks, sum)
    /\ hpc' = "loop" /\ k' = k + 1
    /\ UNCHANGED <<d_sum, sum, queue, graph, graphExec, capturing, hostRest>>
GpuTest == ConvTest("Gpu")
\* a mutation of GpuFinalMemset: the accumulator is not reset
GpuFinalMemsetSkipped ==
    Goto("Gpu", "fmemset", "fsubmit") /\ UNCHANGED <<queue, graph, graphExec, capturing>>
GpuFinalMemset == Emit("Gpu", "fmemset", "fsubmit", MemsetCmd)
GpuFinalSubmit == Emit("Gpu", "fsubmit", "fmemcpy", FinalCmd(GpuFinalBuf(k)))
\* a mutation of GpuFinalMemcpy: the error is not copied back
GpuFinalMemcpySkipped ==
    Goto("Gpu", "fmemcpy", "fwait") /\ UNCHANGED <<queue, graph, graphExec, capturing>>
GpuFinalMemcpy == Emit("Gpu", "fmemcpy", "fwait", MemcpyCmd)
GpuFinalWait == Wait("Gpu", "fwait", "free")
GpuReturn == Return("Gpu")

JacobiMethodGpu ==
    \/ GpuBegin \/ GpuLoop \/ GpuMemset \/ GpuSubmit \/ GpuMemcpy \/ GpuWait
    \/ GpuTest \/ GpuFinalMemset \/ GpuFinalSubmit \/ GpuFinalMemcpy
    \/ GpuFinalWait \/ GpuReturn

(***************************************************************************)
(* JacobiMethodGpuCudaGraphExecKernelSetParams (lines 215-415): the graph  *)
(* memset -> kernel -> memcpy is built and instantiated once; every        *)
(* iteration sets the kernel node's parameters and launches the graph.     *)
(***************************************************************************)
\* a mutation of SpNodeParams: NodeParams1 for even k
SpNodeParamsSwapped(kk) ==
    IF (kk % 2) = 0 THEN JacobiCmd("x_new", "x") ELSE JacobiCmd("x", "x_new")

\* ((k & 1) == 0) ? &NodeParams0 : &NodeParams1, with kernelArgs0 =
\* {A, b, conv_threshold, x, x_new, d_sum} and kernelArgs1 = {..., x_new, x, d_sum}
SpNodeParams(kk) ==
    IF (kk % 2) = 0 THEN JacobiCmd("x", "x_new") ELSE JacobiCmd("x_new", "x")

SpFinalBuf(kk) == IF (kk % 2) = 0 THEN "x_new" ELSE "x"

\* lines 233-313: allocation, the three nodes and cudaGraphInstantiate
SpBegin ==
    /\ Begin("SetParams", "loop")
    /\ graph' = <<MemsetCmd, SpNodeParams(0), MemcpyCmd>>
    /\ graphExec' = graph'
SpLoop == LoopTest("SetParams", "setparams")
\* cudaGraphExecKernelNodeSetParams(graphExec, jacobiKernelNode, ...)
SpSetParams ==
    /\ Goto("SetParams", "setparams", "launch")
    /\ graphExec' = [graphExec EXCEPT ![2] = SpNodeParams(k)]
    /\ UNCHANGED <<queue, graph, capturing>>
\* cudaGraphLaunch(graphExec, stream)
SpLaunch ==
    /\ Goto("SetParams", "launch", "wait")
    /\ queue' = queue \o graphExec
    /\ UNCHANGED <<graph, graphExec, capturing>>
SpWait == Wait("SetParams", "wait", "test")
SpTest == ConvTest("SetParams")
SpFinalMemset == Emit("SetParams", "fmemset", "fsubmit", MemsetCmd)
SpFinalSubmit == Emit("SetParams", "fsubmit", "fmemcpy", FinalCmd(SpFinalBuf(k)))
SpFinalMemcpy == Emit("SetParams", "fmemcpy", "fwait", MemcpyCmd)
SpFinalWait == Wait("SetParams", "fwait", "free")
SpReturn == Return("SetParams")

JacobiMethodGpuCudaGraphExecKernelSetParams ==
    \/ SpBegin \/ SpLoop \/ SpSetParams \/ SpLaunch \/ SpWait \/ SpTest
    \/ SpFinalMemset \/ SpFinalSubmit \/ SpFinalMemcpy \/ SpFinalWait \/ SpReturn

(***************************************************************************)
(* JacobiMethodGpuCudaGraphExecUpdate (lines 417-656): every iteration     *)
(* captures memset, kernel and memcpy from the stream into a graph,        *)
(* instantiates it (first iteration) or updates the instantiated graph     *)
(* with it, and launches the instantiated graph.                           *)
(***************************************************************************)
EuKernelArgs(kk) ==
    IF (kk % 2) = 0 THEN JacobiCmd("x", "x_new") ELSE JacobiCmd("x_new", "x")

EuFinalBuf(kk) == IF (kk % 2) = 0 THEN "x_new" ELSE "x"

EuBegin ==
    /\ Begin("ExecUpdate", "loop")
    /\ graph' = <<>> /\ graphExec' = <<>>
EuLoop == LoopTest("ExecUpdate", "capture")
\* cudaStreamBeginCapture(stream, cudaStreamCaptureModeGlobal)
EuBeginCapture ==
    /\ Goto("ExecUpdate", "capture", "memset")
    /\ capturing' = TRUE /\ graph' = <<>>
    /\ UNCHANGED <<queue, graphExec>>
EuMemset == Emit("ExecUpdate", "memset", "submit", MemsetCmd)
EuSubmit == Emit("ExecUpdate", "submit", "memcpy", EuKernelArgs(k))
EuMemcpy == Emit("ExecUpdate", "memcpy", "endcapture", MemcpyCmd)
\* cudaStreamEndCapture(stream, &graph)
EuEndCapture ==
    /\ Goto("ExecUpdate", "endcapture", "instantiate")
    /\ capturing' = FALSE
    /\ UNCHANGED <<queue, graph, graphExec>>
\* lines 538-543: graphExec == NULL: cudaGraphInstantiate
EuInstantiate ==
    /\ graphExec = <<>>
    /\ Goto("ExecUpdate", "instantiate", "launch")
    /\ graphExec' = graph
    /\ UNCHANGED <<queue, graph, capturing>>
\* lines 544-572: cudaGraphExecUpdate; when the update fails the executable
\* graph is destroyed and instantiated again from the captured graph
EuUpdate(updateSuccess) ==
    /\ graphExec # <<>>
    /\ Goto("ExecUpdate", "instantiate", "launch")
    /\ graphExec' = graph
    /\ UNCHANGED <<queue, graph, capturing>>
EuLaunch ==
    /\ Goto("ExecUpdate", "launch", "wait")
    /\ queue' = queue \o graphExec
    /\ UNCHANGED <<graph, graphExec, capturing>>
EuWait == Wait("ExecUpdate", "wait", "test")
EuTest == ConvTest("ExecUpdate")
EuFinalMemset == Emit("ExecUpdate", "fmemset", "fsubmit", MemsetCmd)
EuFinalSubmit == Emit("ExecUpdate", "fsubmit", "fmemcpy", FinalCmd(EuFinalBuf(k)))
EuFinalMemcpy == Emit("ExecUpdate", "fmemcpy", "fwait", MemcpyCmd)
EuFinalWait == Wait("ExecUpdate", "fwait", "free")
EuReturn == Return("ExecUpdate")

JacobiMethodGpuCudaGraphExecUpdate ==
    \/ EuBegin \/ EuLoop \/ EuBeginCapture \/ EuMemset \/ EuSubmit \/ EuMemcpy
    \/ EuEndCapture \/ EuInstantiate \/ \E ok \in BOOLEAN : EuUpdate(ok)
    \/ EuLaunch \/ EuWait \/ EuTest \/ EuFinalMemset \/ EuFinalSubmit
    \/ EuFinalMemcpy \/ EuFinalWait \/ EuReturn

(***************************************************************************)
(* The device: runs the head command of the stream.                        *)
(***************************************************************************)
devRest == <<A, b, conv_threshold, max_iter, init, variant, hpc, k, ret, graph,
             graphExec, capturing, readbacks, results>>

\* stream->memset(d_sum, 0, sizeof(double))
DevMemset ==
    /\ queue # <<>> /\ Head(queue).op = "memset"
    /\ d_sum' = 0
    /\ queue' = Tail(queue) /\ devlog' = Append(devlog, Head(queue))
    /\ UNCHANGED <<x, x_new, sum, passes, finals, devRest>>

\* one complete launch of JacobiMethod(A, b, conv_threshold, rd, wr, d_sum)
DevJacobi ==
    /\ queue # <<>> /\ Head(queue).op = "JacobiMethod"
    /\ LET c == Head(queue)
           xin == Buf(c.rd)
       IN  /\ IF c.wr = "x" THEN x' = PassOut(xin) /\ x_new' = x_new
                            ELSE x_new' = PassOut(xin) /\ x' = x
           /\ d_sum' = d_sum + PassRes(xin)
           /\ passes' = Append(passes, [k |-> k, rd |-> c.rd, wr |-> c.wr, inp |-> xin,
                                        out |-> PassOut(xin), d0 |-> d_sum,
                                        res |-> PassRes(xin)])
    /\ queue' = Tail(queue) /\ devlog' = Append(devlog, Head(queue))
    /\ UNCHANGED <<sum, finals, devRest>>

\* stream->memcpy(&sum, d_sum, sizeof(double))
DevMemcpy ==
    /\ queue # <<>> /\ Head(queue).op = "memcpy"
    /\ sum' = d_sum
    /\ queue' = Tail(queue) /\ devlog' = Append(devlog, Head(queue))
    /\ UNCHANGED <<x, x_new, d_sum, passes, finals, devRest>>

\* one complete launch of finalError(buf, d_sum)
DevFinalError ==
    /\ queue # <<>> /\ Head(queue).op = "finalError"
    /\ LET c == Head(queue)
       IN  /\ d_sum' = d_sum + FinalErrorOf(Buf(c.rd))
           /\ finals' = Append(finals, [k |-> k, buf |-> c.rd, inp |-> Buf(c.rd),
                                        d0 |-> d_sum])
    /\ queue' = Tail(queue) /\ devlog' = Append(devlog, Head(queue))
    /\ UNCHANGED <<x, x_new, sum, passes, devRest>>

Device == DevMemset \/ DevJacobi \/ DevMemcpy \/ DevFinalError

(***************************************************************************)
(* The caller: runs the three drivers one after the other on the same      *)
(* inputs, restoring x and x_new before each.                              *)
(***************************************************************************)
NextVariant(v) ==
    IF v = Variants[1] THEN Variants[2] ELSE Variants[3]

CallNext ==
    /\ hpc = "ret" /\ variant # Variants[3]
    /\ variant' = NextVariant(variant)
    /\ hpc' = "begin"
    /\ x' = init.x /\ x_new' = init.x_new
    /\ passes' = <<>> /\ finals' = <<>> /\ readbacks' = <<>> /\ devlog' = <<>>
    /\ UNCHANGED <<A, b, d_sum, conv_threshold, max_iter, init, k, sum, ret, queue,
                   graph, graphExec, capturing, results>>

KernelIdle ==
    /\ pre = <<>> /\ nthreads = 0 /\ x_shared = <<>> /\ b_shared = <<>>
    /\ lane = <<>> /\ nAdds = <<>> /\ adders = {}
    /\ rowLog = {} /\ xWrites = <<>>

DriverInit ==
    /\ \E c \in Cases : A = CaseA(c) /\ b = CaseB(c) /\ x = CaseX(c)
    /\ x_new = [i \in Rows |-> 0]
    /\ init = [x |-> x, x_new |-> x_new]
    /\ conv_threshold \in 0 .. MaxThr
    /\ max_iter \in 0 .. MaxIter
    /\ variant = Variants[1] /\ hpc = "begin"
    /\ k = 0 /\ sum = Uninit /\ ret = Uninit /\ d_sum = Uninit
    /\ queue = <<>> /\ graph = <<>> /\ graphExec = <<>> /\ capturing = FALSE
    /\ passes = <<>> /\ finals = <<>> /\ readbacks = <<>> /\ devlog = <<>>
    /\ results = [v \in {"Gpu", "SetParams", "ExecUpdate"} |-> <<>>]
    /\ KernelIdle
    /\ ConvIdle
    /\ FinalIdle
    /\ AtomicIdle

DriverNext ==
    /\ \/ JacobiMethodGpu
       \/ JacobiMethodGpuCudaGraphExecKernelSetParams
       \/ JacobiMethodGpuCudaGraphExecUpdate
       \/ Device
       \/ CallNext
    /\ UNCHANGED <<kernelVars, convVars, finalVars, atomicVars>>

SpecDriver == DriverInit /\ [][DriverNext]_vars

\* the stream and the host both keep running
FairSpecDriver == SpecDriver /\ WF_vars(DriverNext)

(***************************************************************************)
(* Claims about the drivers (SpecDriver, FairSpecDriver).                  *)
(***************************************************************************)
InGpu == variant = "Gpu"
Converged == \E j \in 1 .. Len(readbacks) : readbacks[j] <= conv_threshold
LastPass == passes[Len(passes)]

\* C3: in JacobiMethodGpu, a read-back residual <= conv_threshold is the
\* last one read back and no pass is launched after the pass that produced
\* it; and the driver returns only after such a residual or after max_iter
\* passes: while every residual is above the threshold the next pass is
\* launched until k reaches max_iter.
C3_LeavesByConvergenceOrExhaustion ==
    InGpu =>
        /\ \A j \in 1 .. Len(readbacks) :
              readbacks[j] <= conv_threshold =>
                  /\ j = Len(readbacks)
                  /\ Len(passes) = j
                  /\ \A q \in 1 .. Len(queue) : queue[q].op # "JacobiMethod"
        /\ hpc = "ret" => Converged \/ Len(passes) = max_iter
        /\ (hpc = "loop" /\ ~Converged) => Len(passes) = k /\ Len(readbacks) = k

\* C3 witness: the driver has returned after an early exit that left
\* iterations unused.
C3_Witness ==
    /\ InGpu /\ hpc = "ret" /\ Converged
    /\ Len(passes) = 2 /\ max_iter = 3

Parity(kk) == kk % 2

\* C4: in JacobiMethodGpu the j-th pass run is iteration k = j - 1; it reads
\* x and writes x_new when k is even, reads x_new and writes x when k is
\* odd; what iteration k >= 1 reads is what iteration k - 1 wrote, and
\* iteration 0 reads the caller's initial x.
C4_PingPongByParity ==
    InGpu =>
        \A j \in 1 .. Len(passes) :
            /\ passes[j].k = j - 1
            /\ passes[j].rd = (IF Parity(j - 1) = 0 THEN "x" ELSE "x_new")
            /\ passes[j].wr = (IF Parity(j - 1) = 0 THEN "x_new" ELSE "x")
            /\ j = 1 => passes[j].inp = init.x
            /\ j > 1 => /\ passes[j].rd = passes[j - 1].wr
                        /\ passes[j].inp = passes[j - 1].out

\* C4 witness: three passes have run and each changed the iterate.
C4_Witness ==
    /\ InGpu /\ Len(passes) = 3
    /\ \A j \in 1 .. 3 : passes[j].out # passes[j].inp

\* C5: in JacobiMethodGpu finalError runs at most once, only after a
\* residual <= conv_threshold was read back, on the buffer the last pass
\* wrote, with the accumulator reset to zero; once the driver has left by
\* convergence finalError has run exactly once and the value read back is
\* SUM_i |v_i - 1| over that buffer alone.
C5_FinalErrorOnceOnLatestIterate ==
    InGpu =>
        /\ Len(finals) <= 1
        /\ \A j \in 1 .. Len(finals) :
              /\ Converged
              /\ finals[j].buf = LastPass.wr
              /\ finals[j].buf = (IF Parity(Len(readbacks) - 1) = 0 THEN "x_new" ELSE "x")
              /\ finals[j].inp = LastPass.out
              /\ finals[j].d0 = 0
        /\ (hpc \in {"free", "ret"} /\ Converged) =>
              /\ Len(finals) = 1
              /\ sum = SumOver([i \in Rows |-> Abs(LastPass.out[i] - 1)], Rows)

\* C5 witness: convergence with a non-zero residual and a non-zero error,
\* the error read back differing from the residual.
C5_Witness ==
    /\ InGpu /\ hpc = "ret" /\ Len(finals) = 1
    /\ LastPass.res > 0
    /\ sum > 0
    /\ sum # LastPass.res

GpuReturned == results["Gpu"] # <<>>

C7_ReturnsLastResidual ==
    (InGpu /\ hpc = "ret" /\ max_iter >= 1) => ret = LastPass.res

\* C7 amended: for max_iter >= 1 the value returned is the residual of the
\* last pass when the loop ended because max_iter was exhausted, and the
\* error SUM_i |v_i - 1| of the iterate the last pass wrote when the loop
\* ended because the residual was <= conv_threshold.
C7_ReturnsResidualOrFinalError ==
    (InGpu /\ hpc = "ret" /\ max_iter >= 1) =>
        ret = (IF LastPass.res <= conv_threshold
               THEN SumOver([i \in Rows |-> Abs(LastPass.out[i] - 1)], Rows)
               ELSE LastPass.res)

\* C7 witness: a return after convergence whose value is a non-zero error
\* that differs from the last residual.
C7_Witness ==
    /\ InGpu /\ hpc = "ret" /\ max_iter >= 1
    /\ LastPass.res <= conv_threshold
    /\ ret # LastPass.res
    /\ ret > 0

\* C15: in the loop of JacobiMethodGpu the accumulator is zero when a pass
\* starts, so the j-th value read back is the SUM_i |dx_i| of the j-th pass
\* alone, with nothing of the earlier passes in it.
C15_AccumulatorZeroBeforeEachPass ==
    InGpu =>
        /\ \A j \in 1 .. Len(passes) : passes[j].d0 = 0
        /\ Len(readbacks) <= Len(passes)
        /\ \A j \in 1 .. Len(readbacks) : readbacks[j] = passes[j].res

\* C15 witness: the residual of a second pass has been read back after a
\* first pass whose residual was not zero.
C15_Witness ==
    /\ InGpu /\ Len(readbacks) >= 2
    /\ passes[1].res > 0
    /\ passes[2].res > 0
    /\ readbacks[2] # passes[1].res + passes[2].res

\* the JacobiMethod launches waiting in the stream
Launched == {q \in 1 .. Len(queue) : queue[q].op = "JacobiMethod"}

\* C16: the iterations of JacobiMethodGpu do not overlap: a pass is in the
\* stream only when every earlier pass has run to its end and its residual
\* has been copied back and tested by the host, never two passes at once;
\* and when the host tests the residual the stream is empty and the value
\* it compares is the complete residual of the pass of this iteration.
C16_IterationsDoNotOverlap ==
    InGpu =>
        /\ Cardinality(Launched) <= 1
        /\ Launched # {} => Len(passes) = k /\ Len(readbacks) = k
        /\ hpc = "test" =>
              /\ queue = <<>>
              /\ Len(passes) = k + 1 /\ Len(readbacks) = k
              /\ LastPass.k = k
              /\ sum = LastPass.res
              /\ d_sum = sum

\* C16 witness: the host is about to test the residual of the third pass,
\* which differs from the one it tested before.
C16_Witness ==
    /\ InGpu /\ hpc = "test" /\ k = 2
    /\ sum # readbacks[2]

\* C17 as stated: with max_iter = 0 the driver writes neither x nor x_new
\* and launches no kernel, and the value it returns is the residual of the
\* initial guess or a sentinel that cannot be the return value of a run
\* that converged (such a run returns a sum of absolute values, any value
\* >= 0).
C17_ZeroIterationsResidualOrSentinel ==
    (InGpu /\ hpc = "ret" /\ max_iter = 0) =>
        /\ x = init.x /\ x_new = init.x_new
        /\ passes = <<>> /\ finals = <<>>
        /\ ret = PassRes(init.x) \/ ret < 0

\* a converged run of JacobiMethodGpu that returns 0, the value the driver
\* returns when max_iter = 0
C17_ConvergedRunReturnsZero ==
    InGpu /\ hpc = "ret" /\ max_iter >= 1 /\ Converged /\ ret = 0

\* C8: the three drivers, called with the same A, b, conv_threshold,
\* max_iter, x and x_new, make the device run the same sequence of
\* commands (memset, pass with the same read and write buffers, memcpy,
\* and the same finalError) and leave the same x, x_new, k and return value.
C8_DriversAgree ==
    \A v \in {"SetParams", "ExecUpdate"} :
        results[v] # <<>> => results[v] = results["Gpu"]

\* C8 witness: all three drivers have returned after several passes and a
\* finalError launch.
C8_Witness ==
    /\ variant = "ExecUpdate" /\ hpc = "ret"
    /\ results["ExecUpdate"].passes >= 2
    /\ results["ExecUpdate"].finals = 1
    /\ results["SetParams"] # <<>>

(***************************************************************************)
(* SpecJacobi: a JacobiMethod launch at lane level, or a run of the        *)
(* drivers on the stream.                                                  *)
(***************************************************************************)
JacobiNext ==
    \/ nthreads > 0 /\ KernelNext
    \/ DriverNext

SpecJacobi == (KernelInit \/ DriverInit) /\ [][JacobiNext]_vars

\* a step of a lane of the pass; a step in which the device runs a pass
LaneStep == nthreads > 0 /\ lane' # lane
PassStep == passes' # passes /\ passes' # <<>>

\* C25: no step of a JacobiMethod pass changes A, b or the input iterate:
\* a lane's step changes at most one entry of the output iterate or the
\* accumulator; and in a whole run of a driver A and b never change, a pass
\* leaving the buffer it reads as it was.
C25_PassWritesOnlyOutputAndAccumulator ==
    [][/\ A' = A /\ b' = b
       /\ LaneStep =>
            /\ x' = x
            /\ DOMAIN x_new' = Rows
            /\ Cardinality({i \in Rows : x_new'[i] # x_new[i]}) <= 1
            /\ x_new' = x_new \/ d_sum' = d_sum
       /\ PassStep =>
            LET c == passes'[Len(passes')]
            IN  /\ c.rd # c.wr
                /\ c.rd = "x" => x' = x
                /\ c.rd = "x_new" => x_new' = x_new]_vars

\* C25 witness: a finished pass has changed the output iterate and the
\* accumulator; the input iterate is as it was at the launch.
C25_Witness ==
    /\ nthreads > 0 /\ KernelDone
    /\ x = pre.x
    /\ x_new # pre.x_new
    /\ d_sum # pre.d_sum

\* C25 witness of the run: the device has run a pass that read x_new and
\* wrote x, and one that read x and wrote x_new.
C25_WitnessRun ==
    /\ Len(passes) >= 2
    /\ passes[1].rd = "x" /\ passes[2].rd = "x_new"
    /\ passes[2].out # passes[2].inp

(***************************************************************************)
(* atomicAdd (jacobi.dp.cpp:38-55), the compare-and-swap fallback, called  *)
(* concurrently on one address.  A double is [nan, v]; its 64-bit pattern  *)
(* is sign and magnitude, NaN having a pattern of its own.  pc of a call:  *)
(*   "read" line 41, "cas" lines 44-50 (one round of the loop: the         *)
(*   atomicCAS, which is one atomic operation of the device, and the test  *)
(*   of line 50), "done" after line 52; rounds counts the rounds made.     *)
(***************************************************************************)
NaN == [nan |-> TRUE, v |-> 0]
Dbl(v) == [nan |-> FALSE, v |-> v]

\* the sign bit of the pattern, and the pattern of NaN
SignBit == 2 * 2 * 2 * 2 * 2 * 2
NaNBits == 2 * SignBit - 1

\* __double_as_longlong and __longlong_as_double
DoubleAsLongLong(d) ==
    IF d.nan THEN NaNBits ELSE IF d.v < 0 THEN SignBit + (0 - d.v) ELSE d.v
LongLongAsDouble(w) ==
    IF w = NaNBits THEN NaN ELSE IF w >= SignBit THEN Dbl(0 - (w - SignBit)) ELSE Dbl(w)

\* val + __longlong_as_double(assumed): NaN is absorbing
DAdd(d, e) == IF d.nan \/ e.nan THEN NaN ELSE Dbl(d.v + e.v)

\* a mutation of Retry: the patterns are compared as doubles, and NaN is
\* unequal to itself
RetryAsDouble(assumed, old) ==
    \/ LongLongAsDouble(assumed).nan \/ LongLongAsDouble(old).nan
    \/ LongLongAsDouble(assumed).v # LongLongAsDouble(old).v

\* while (assumed != old), an integer comparison
Retry(assumed, old) == assumed # old

Callers == DOMAIN caller

\* line 41: old = *address_as_ull
AtomicRead(c) ==
    /\ caller[c].pc = "read"
    /\ caller' = [caller EXCEPT ![c] = [@ EXCEPT !.pc = "cas", !.old = cell]]
    /\ UNCHANGED <<cell, cell0, swaps>>

\* lines 44-50, one round: assumed = old; old = atomicCAS(address_as_ull,
\* assumed, bits(val + double(assumed))); then the loop test, and on exit
\* the return of line 52
AtomicCAS(c) ==
    /\ caller[c].pc = "cas"
    /\ LET assumed == caller[c].old
           new == DoubleAsLongLong(DAdd(caller[c].val, LongLongAsDouble(assumed)))
           swapped == cell = assumed
           old == cell
       IN  /\ cell' = IF swapped THEN new ELSE cell
           /\ swaps' = IF swapped
                       THEN Append(swaps, [c |-> c, before |-> cell, after |-> new])
                       ELSE swaps
           /\ caller' = [caller EXCEPT ![c] =
                   IF Retry(assumed, old)
                   THEN [@ EXCEPT !.assumed = assumed, !.old = old, !.rounds = @ + 1]
                   ELSE [@ EXCEPT !.assumed = assumed, !.old = old, !.rounds = @ + 1,
                                  !.pc = "done", !.ret = LongLongAsDouble(old)]]
    /\ UNCHANGED cell0

\* the arguments val of the calls and the contents of the location
AtomicVals == {Dbl(0 - 1), Dbl(2)}
AtomicCells == {Dbl(0), Dbl(0 - 3), NaN}

AtomicInit ==
    /\ \E d \in AtomicCells : cell = DoubleAsLongLong(d)
    /\ cell0 = cell
    /\ \E n \in 1 .. MaxCallers : \E vals \in [1 .. n -> AtomicVals] :
            caller = [c \in 1 .. n |->
                        [pc |-> "read", val |-> vals[c], old |-> 0, assumed |-> 0,
                         rounds |-> 0, ret |-> Dbl(0)]]
    /\ swaps = <<>>
    /\ A = <<>> /\ b = <<>> /\ x = <<>> /\ x_new = <<>> /\ d_sum = 0
    /\ KernelIdle
    /\ DriverIdle
    /\ ConvIdle
    /\ FinalIdle

AtomicNext ==
    /\ \/ \E c \in Callers : AtomicRead(c)
       \/ \E c \in Callers : AtomicCAS(c)
    /\ UNCHANGED <<jacobiVars, kernelVars, driverVars, convVars, finalVars>>

SpecAtomic == AtomicInit /\ [][AtomicNext]_vars

\* the device keeps running the calls that can take a step
FairSpecAtomic == SpecAtomic /\ WF_vars(AtomicNext)

\* the successful swaps of call c; every call has returned
SwapsOf(c) == {n \in 1 .. Len(swaps) : swaps[n].c = c}
AtomicDone == \A c \in Callers : caller[c].pc = "done"

\* the location's initial value plus the arguments of the calls in S
PlusVals(S) ==
    DAdd(LongLongAsDouble(cell0), Dbl(SumOver([c \in Callers |-> caller[c].val.v], S)))

\* the successful swaps form one chain from the initial pattern to the
\* current one, at most one swap per call, each adding the call's val; a
\* call that has returned has swapped and returned the value before its swap
Linearized ==
    /\ \A n \in 1 .. Len(swaps) :
            /\ swaps[n].before = (IF n = 1 THEN cell0 ELSE swaps[n - 1].after)
            /\ swaps[n].after =
                    DoubleAsLongLong(DAdd(caller[swaps[n].c].val,
                                          LongLongAsDouble(swaps[n].before)))
    /\ cell = (IF swaps = <<>> THEN cell0 ELSE swaps[Len(swaps)].after)
    /\ \A c \in Callers :
            /\ Cardinality(SwapsOf(c)) <= 1
            /\ caller[c].pc = "done" =>
                    \E m \in SwapsOf(c) : caller[c].ret = LongLongAsDouble(swaps[m].before)
    /\ LongLongAsDouble(cell) = PlusVals({c \in Callers : SwapsOf(c) # {}})

\* C30: the compare-and-swap atomicAdd is linearizable as an add.  In every
\* interleaving of the calls on one address: the successful swaps form one
\* chain, each storing the pattern of (value before + the call's val); a
\* call swaps at most once and, when it has returned, exactly once, and it
\* returns the value the location held just before its swap; the location
\* holds the initial value plus the vals of the calls that have swapped,
\* and plus all vals at the end; a round whose swap fails leaves the
\* location as it was; and every call returns, also when the location
\* holds NaN.
C30_AtomicAddIsLinearizable ==
    /\ [](Linearized /\ (AtomicDone => LongLongAsDouble(cell) = PlusVals(Callers)))
    /\ [][Len(swaps') = Len(swaps) => cell' = cell]_vars
    /\ <>AtomicDone

\* C30 witness: three calls on a location that held a number have all
\* returned; one of them needed three rounds, its swap having failed twice.
C30_Witness ==
    /\ AtomicDone
    /\ Cardinality(Callers) = 3
    /\ ~LongLongAsDouble(cell0).nan
    /\ cell # cell0
    /\ \E c \in Callers : caller[c].rounds = 3

\* the calls on a location that holds NaN have all returned
C30_WitnessNaN ==
    /\ AtomicDone
    /\ Cardinality(Callers) > 1
    /\ LongLongAsDouble(cell0).nan /\ cell = NaNBits
    /\ \A c \in Callers : caller[c].ret = NaN

(***************************************************************************)
(* Separable convolution (convolutionSeparable.dp.cpp).  Images are flat   *)
(* arrays indexed row * pitch + column, as the kernels index them; pitch   *)
(* is imageW.  A lane loads its scratch cells in one step, waits at the    *)
(* barrier, and computes and stores its results in one step.               *)
(***************************************************************************)
KERNEL_LENGTH == 2 * KERNEL_RADIUS + 1

\* the source images: a ramp of distinct non-zero values (p = 1), and
\* single impulses
ImageCase(p, n) ==
    [idx \in 0 .. (n - 1) |->
        IF p = 1 THEN idx + 1 ELSE IF idx = ((p - 2) * 5) % n THEN 1 ELSE 0]

\* the coefficient vectors: identity, a ramp, all ones, antisymmetric
\* weights of both signs
KernelCase(q) ==
    [t \in 0 .. (KERNEL_LENGTH - 1) |->
        IF q = 0 THEN (IF t = KERNEL_RADIUS THEN 1 ELSE 0)
        ELSE IF q = 1 THEN t + 1
        ELSE IF q = 2 THEN 1
        ELSE (q - 2) * (t - KERNEL_RADIUS)]

\* image shapes <<imageW, imageH>>: two row tiles wide, two column tiles
\* high, one tile of each pass, and one row tile and a half wide (a width
\* the row pass does not divide, a height the column pass does not divide)
Shapes ==
    {<<2 * ROWS_RESULT_STEPS * ROWS_BLOCKDIM_X, ROWS_BLOCKDIM_Y>>,
     <<COLUMNS_BLOCKDIM_X, 2 * COLUMNS_RESULT_STEPS * COLUMNS_BLOCKDIM_Y>>,
     <<ROWS_RESULT_STEPS * ROWS_BLOCKDIM_X, COLUMNS_RESULT_STEPS * COLUMNS_BLOCKDIM_Y>>,
     <<ROWS_RESULT_STEPS * ROWS_BLOCKDIM_X + ROWS_BLOCKDIM_X, ROWS_BLOCKDIM_Y>>}

\* d_Src[idx]; memory outside the image holds no pixel of it
SrcAt(idx) == IF idx \in DOMAIN d_Src THEN d_Src[idx] ELSE Uninit

\* count one more store to each cell <<r, c>> of S in a group's tile
CountStores(t, S) ==
    [r \in DOMAIN t |-> [c \in DOMAIN t[r] |-> t[r][c] + (IF <<r, c>> \in S THEN 1 ELSE 0)]]

\* count one more write to each index of S
CountWrites(f, S) ==
    [i \in (DOMAIN f) \cup S |->
        (IF i \in DOMAIN f THEN f[i] ELSE 0) + (IF i \in S THEN 1 ELSE 0)]

\* a copy that stops one coefficient short
SetConvolutionKernelShort(h) ==
    /\ cstate = "idle" /\ ncalls = 0
    /\ c_Kernel' = [t \in 0 .. (KERNEL_LENGTH - 1) |->
                        IF t < KERNEL_LENGTH - 1 THEN h[t] ELSE c_Kernel[t]]
    /\ UNCHANGED <<imageW, imageH, d_Src, d_Dst, cstate, ncalls, s_Data, clane, cpre,
                   srcReads, tileWrites, dstWrites>>

\* setConvolutionKernel (lines 40-44): copies KERNEL_LENGTH coefficients;
\* the caller sets the coefficients, any number of times, before its first
\* pass
SetConvolutionKernel(h) ==
    /\ cstate = "idle" /\ ncalls = 0
    /\ c_Kernel' = [t \in 0 .. (KERNEL_LENGTH - 1) |-> h[t]]
    /\ UNCHANGED <<imageW, imageH, d_Src, d_Dst, cstate, ncalls, s_Data, clane, cpre,
                   srcReads, tileWrites, dstWrites>>

\* what a launch sets up: the pass reads the buffer the previous pass wrote
\* (the caller's image for the first pass) and writes a fresh buffer; prev
\* is the record of the previous launch
Dispatch(kind, groups, lanes, tile) ==
    /\ cstate' = kind
    /\ d_Src' = (IF dstWrites = <<>> THEN d_Src ELSE d_Dst)
    /\ d_Dst' = [idx \in DOMAIN d_Src |-> Uninit]
    /\ s_Data' = [g \in groups |-> tile]
    /\ clane' = [g \in groups |-> [l \in lanes |-> "load"]]
    /\ cpre' = [kind |-> kind, d_Src |-> d_Src', d_Dst |-> d_Dst', c_Kernel |-> c_Kernel,
                prev |-> cpre]
    /\ srcReads' = {}
    /\ tileWrites' = [g \in groups |-> [r \in DOMAIN tile |-> [c \in DOMAIN tile[r] |-> 0]]]
    /\ dstWrites' = [idx \in {} |-> 0]

(***************************************************************************)
(* Row pass: convolutionRowsGPU (lines 126-168) and convolutionRowsKernel  *)
(* (lines 54-124).                                                         *)
(***************************************************************************)
\* the asserts of lines 128-130
RowsPreconditions ==
    /\ ROWS_BLOCKDIM_X * ROWS_HALO_STEPS >= KERNEL_RADIUS
    /\ imageW % (ROWS_RESULT_STEPS * ROWS_BLOCKDIM_X) = 0
    /\ imageH % ROWS_BLOCKDIM_Y = 0

\* the asserts of lines 259-261
ColumnsPreconditions ==
    /\ COLUMNS_BLOCKDIM_Y * COLUMNS_HALO_STEPS >= KERNEL_RADIUS
    /\ imageW % COLUMNS_BLOCKDIM_X = 0
    /\ imageH % (COLUMNS_RESULT_STEPS * COLUMNS_BLOCKDIM_Y) = 0

\* the kinds of pass launched so far
RECURSIVE Launches(_)
Launches(c) == IF c = <<>> THEN {} ELSE {c.kind} \cup Launches(c.prev)

\* assert (assert.h, line 30) expands to nothing when the program is built
\* with NDEBUG, and ends the process on a false condition otherwise.  The
\* build is the same for every call: one in which a pass was launched
\* although an assert of it is false has its asserts compiled out.
AssertsCompiledOut ==
    \/ "rows" \in Launches(cpre) /\ ~RowsPreconditions
    \/ "cols" \in Launches(cpre) /\ ~ColumnsPreconditions

\* a build whose asserts end the process whether their condition holds or not
AssertsAbortUnconditional(holds) == ~AssertsCompiledOut

\* the asserts of an entry point: they pass, they are compiled out, or the
\* process is aborted before anything is submitted
AssertsAbort(holds) == ~holds /\ ~AssertsCompiledOut

\* the process has been aborted by a failed assert
Aborted ==
    /\ cstate' = "aborted"
    /\ UNCHANGED <<d_Src, d_Dst, s_Data, clane, cpre, srcReads, tileWrites, dstWrites>>

\* blocks(imageW / (ROWS_RESULT_STEPS * ROWS_BLOCKDIM_X), imageH / ROWS_BLOCKDIM_Y)
RowsGroups ==
    (0 .. ((imageW \div (ROWS_RESULT_STEPS * ROWS_BLOCKDIM_X)) - 1))
        \X (0 .. ((imageH \div ROWS_BLOCKDIM_Y) - 1))

\* threads(ROWS_BLOCKDIM_X, ROWS_BLOCKDIM_Y)
RowsLanes == (0 .. (ROWS_BLOCKDIM_X - 1)) \X (0 .. (ROWS_BLOCKDIM_Y - 1))

\* s_Data[ROWS_BLOCKDIM_Y][(ROWS_RESULT_STEPS + 2 * ROWS_HALO_STEPS) * ROWS_BLOCKDIM_X]
RowsTile ==
    [r \in 0 .. (ROWS_BLOCKDIM_Y - 1) |->
        [c \in 0 .. ((ROWS_RESULT_STEPS + 2 * ROWS_HALO_STEPS) * ROWS_BLOCKDIM_X - 1)
            |-> Uninit]]

convolutionRowsGPU ==
    /\ cstate = "idle" /\ ncalls < MaxCalls
    /\ ncalls' = ncalls + 1
    /\ \/ AssertsAbort(RowsPreconditions) /\ Aborted
       \/ Dispatch("rows", RowsGroups, RowsLanes, RowsTile)
    /\ UNCHANGED <<imageW, imageH, c_Kernel>>

\* lines 64-69
RowsBaseX(g, l) ==
    (g[1] * ROWS_RESULT_STEPS - ROWS_HALO_STEPS) * ROWS_BLOCKDIM_X + l[1]
RowsBaseY(g, l) == g[2] * ROWS_BLOCKDIM_Y + l[2]

\* the offset of lines 71-72: baseY * pitch + baseX
RowsBase(g, l) == RowsBaseY(g, l) * imageW + RowsBaseX(g, l)

\* a mutation of RowsMainSteps: the result steps are counted from 0
RowsMainStepsFromZero == 0 .. (ROWS_RESULT_STEPS - 1)

RowsMainSteps == ROWS_HALO_STEPS .. (ROWS_HALO_STEPS + ROWS_RESULT_STEPS - 1)
RowsLeftSteps == 0 .. (ROWS_HALO_STEPS - 1)
RowsRightSteps ==
    (ROWS_HALO_STEPS + ROWS_RESULT_STEPS)
        .. (ROWS_HALO_STEPS + ROWS_RESULT_STEPS + ROWS_HALO_STEPS - 1)

\* a mutation of RowsHaloGuard: the halo is loaded without the bounds checks
RowsHaloUnguarded(g, l, i) == TRUE

\* line 89: baseX >= -i * ROWS_BLOCKDIM_X, line 99: imageW - baseX > i * ROWS_BLOCKDIM_X
RowsHaloGuard(g, l, i) ==
    IF i \in RowsLeftSteps
    THEN RowsBaseX(g, l) >= 0 - i * ROWS_BLOCKDIM_X
    ELSE imageW - RowsBaseX(g, l) > i * ROWS_BLOCKDIM_X

\* the d_Src index step i of the lane loads from, if it loads at all
RowsSrcIdx(g, l, i) == RowsBase(g, l) + i * ROWS_BLOCKDIM_X

\* the positions the lane reads: d_Src + i * ROWS_BLOCKDIM_X is column
\* baseX + i * ROWS_BLOCKDIM_X of row baseY
RowsReads(g, l) ==
    {<<RowsBaseX(g, l) + i * ROWS_BLOCKDIM_X, RowsBaseY(g, l)>> : i \in
        {i \in RowsMainSteps \cup RowsLeftSteps \cup RowsRightSteps :
            i \in RowsMainSteps \/ RowsHaloGuard(g, l, i)}}

\* the value step i stores into s_Data[local_y][local_x + i * ROWS_BLOCKDIM_X]
RowsLoadVal(g, l, i) ==
    IF i \in RowsMainSteps \/ RowsHaloGuard(g, l, i)
    THEN SrcAt(RowsSrcIdx(g, l, i))
    ELSE 0

\* the cells s_Data[local_y][local_x + i * ROWS_BLOCKDIM_X] the lane stores
RowsCells(l) ==
    {<<l[2], l[1] + i * ROWS_BLOCKDIM_X>> :
        i \in RowsMainSteps \cup RowsLeftSteps \cup RowsRightSteps}

\* lines 77-100
RowsLoad(g, l) ==
    /\ cstate = "rows" /\ clane[g][l] = "load"
    /\ s_Data' = [s_Data EXCEPT ![g][l[2]] =
            [c \in DOMAIN @ |->
                IF (c - l[1]) % ROWS_BLOCKDIM_X = 0 /\ c >= l[1]
                THEN RowsLoadVal(g, l, (c - l[1]) \div ROWS_BLOCKDIM_X)
                ELSE @[c]]]
    /\ srcReads' = srcReads \cup RowsReads(g, l)
    /\ tileWrites' = [tileWrites EXCEPT ![g] = CountStores(@, RowsCells(l))]
    /\ clane' = [clane EXCEPT ![g][l] = "bar"]
    /\ UNCHANGED <<imageW, imageH, c_Kernel, d_Src, d_Dst, cstate, ncalls, cpre,
                   dstWrites>>

\* a mutation of ConvBarrier: a lane leaves the barrier as soon as it arrives
ConvBarrierNoWait(g) ==
    /\ cstate \in {"rows", "cols"}
    /\ \E l \in DOMAIN clane[g] : clane[g][l] = "bar"
    /\ clane' = [clane EXCEPT ![g] =
            [l \in DOMAIN @ |-> IF @[l] = "bar" THEN "compute" ELSE @[l]]]
    /\ UNCHANGED <<imageW, imageH, c_Kernel, d_Src, d_Dst, cstate, ncalls, s_Data,
                   cpre, srcReads, tileWrites, dstWrites>>

\* item_ct1.barrier(), lines 108 and 239
ConvBarrier(g) ==
    /\ cstate \in {"rows", "cols"}
    /\ \A l \in DOMAIN clane[g] : clane[g][l] = "bar"
    /\ clane' = [clane EXCEPT ![g] = [l \in DOMAIN @ |-> "compute"]]
    /\ UNCHANGED <<imageW, imageH, c_Kernel, d_Src, d_Dst, cstate, ncalls, s_Data,
                   cpre, srcReads, tileWrites, dstWrites>>

Taps == (0 - KERNEL_RADIUS) .. KERNEL_RADIUS

\* a scratch cell; cells outside the tile hold no loaded value
TileAt(t, r, c) == IF c \in DOMAIN t[r] THEN t[r][c] ELSE Uninit

\* a mutation of RowsSum: the window is one cell to the right
RowsSumShifted(g, l, i) ==
    SumOver([j \in Taps |->
                c_Kernel[KERNEL_RADIUS - j]
                    * TileAt(s_Data[g], l[2], l[1] + i * ROWS_BLOCKDIM_X + j + 1)],
            Taps)

\* lines 112-120: sum += c_Kernel[KERNEL_RADIUS - j] * s_Data[ly][lx + i * BX + j]
RowsSum(g, l, i) ==
    SumOver([j \in Taps |->
                c_Kernel[KERNEL_RADIUS - j]
                    * TileAt(s_Data[g], l[2], l[1] + i * ROWS_BLOCKDIM_X + j)],
            Taps)

\* a mutation of RowsDstIdx: every result step stores at the first one's place
RowsDstIdxFirstStep(g, l, i) == RowsBase(g, l) + ROWS_HALO_STEPS * ROWS_BLOCKDIM_X

\* the d_Dst index of line 122
RowsDstIdx(g, l, i) == RowsBase(g, l) + i * ROWS_BLOCKDIM_X

\* a mutation of RowsCompute: the results are stored into the source image
RowsComputeInPlace(g, l) ==
    /\ cstate = "rows" /\ clane[g][l] = "compute"
    /\ d_Src' = [idx \in DOMAIN d_Src |->
            IF \E i \in RowsMainSteps : idx = RowsDstIdx(g, l, i)
            THEN RowsSum(g, l, CHOOSE i \in RowsMainSteps : idx = RowsDstIdx(g, l, i))
            ELSE d_Src[idx]]
    /\ dstWrites' = CountWrites(dstWrites, {RowsDstIdx(g, l, i) : i \in RowsMainSteps})
    /\ clane' = [clane EXCEPT ![g][l] = "done"]
    /\ UNCHANGED <<imageW, imageH, c_Kernel, d_Dst, cstate, ncalls, s_Data, cpre,
                   srcReads, tileWrites>>

\* lines 111-123
RowsCompute(g, l) ==
    /\ cstate = "rows" /\ clane[g][l] = "compute"
    /\ d_Dst' = [idx \in DOMAIN d_Dst |->
            IF \E i \in RowsMainSteps : idx = RowsDstIdx(g, l, i)
            THEN RowsSum(g, l, CHOOSE i \in RowsMainSteps : idx = RowsDstIdx(g, l, i))
            ELSE d_Dst[idx]]
    /\ dstWrites' = CountWrites(dstWrites, {RowsDstIdx(g, l, i) : i \in RowsMainSteps})
    /\ clane' = [clane EXCEPT ![g][l] = "done"]
    /\ UNCHANGED <<imageW, imageH, c_Kernel, d_Src, cstate, ncalls, s_Data, cpre,
                   srcReads, tileWrites>>

(***************************************************************************)
(* Column pass: convolutionColumnsGPU (lines 257-304) and                  *)
(* convolutionColumnsKernel (lines 178-255).                               *)
(***************************************************************************)
\* blocks(imageW / COLUMNS_BLOCKDIM_X, imageH / (COLUMNS_RESULT_STEPS * COLUMNS_BLOCKDIM_Y))
ColumnsGroups ==
    (0 .. ((imageW \div COLUMNS_BLOCKDIM_X) - 1))
        \X (0 .. ((imageH \div (COLUMNS_RESULT_STEPS * COLUMNS_BLOCKDIM_Y)) - 1))

\* threads(COLUMNS_BLOCKDIM_X, COLUMNS_BLOCKDIM_Y)
ColumnsLanes == (0 .. (COLUMNS_BLOCKDIM_X - 1)) \X (0 .. (COLUMNS_BLOCKDIM_Y - 1))

\* s_Data[COLUMNS_BLOCKDIM_X][(COLUMNS_RESULT_STEPS + 2 * COLUMNS_HALO_STEPS) * COLUMNS_BLOCKDIM_Y + 1]
ColumnsTile ==
    [r \in 0 .. (COLUMNS_BLOCKDIM_X - 1) |->
        [c \in 0 .. ((COLUMNS_RESULT_STEPS + 2 * COLUMNS_HALO_STEPS) * COLUMNS_BLOCKDIM_Y)
            |-> Uninit]]

convolutionColumnsGPU ==
    /\ cstate = "idle" /\ ncalls < MaxCalls
    /\ ncalls' = ncalls + 1
    /\ \/ AssertsAbort(ColumnsPreconditions) /\ Aborted
       \/ Dispatch("cols", ColumnsGroups, ColumnsLanes, ColumnsTile)
    /\ UNCHANGED <<imageW, imageH, c_Kernel>>

\* lines 190-195
ColumnsBaseX(g, l) == g[1] * COLUMNS_BLOCKDIM_X + l[1]
ColumnsBaseY(g, l) ==
    (g[2] * COLUMNS_RESULT_STEPS - COLUMNS_HALO_STEPS) * COLUMNS_BLOCKDIM_Y + l[2]

\* the offset of lines 196-197: baseY * pitch + baseX
ColumnsBase(g, l) == ColumnsBaseY(g, l) * imageW + ColumnsBaseX(g, l)

ColumnsMainSteps ==
    COLUMNS_HALO_STEPS .. (COLUMNS_HALO_STEPS + COLUMNS_RESULT_STEPS - 1)
ColumnsUpperSteps == 0 .. (COLUMNS_HALO_STEPS - 1)
ColumnsLowerSteps ==
    (COLUMNS_HALO_STEPS + COLUMNS_RESULT_STEPS)
        .. (COLUMNS_HALO_STEPS + COLUMNS_RESULT_STEPS + COLUMNS_HALO_STEPS - 1)

\* a mutation of ColumnsHaloGuard: the halo is loaded without the bounds checks
ColumnsHaloUnguarded(g, l, i) == TRUE

\* a mutation of ColumnsHaloGuard: the lower halo is tested against imageW
ColumnsHaloGuardWidth(g, l, i) ==
    IF i \in ColumnsUpperSteps
    THEN ColumnsBaseY(g, l) >= 0 - i * COLUMNS_BLOCKDIM_Y
    ELSE imageW - ColumnsBaseY(g, l) > i * COLUMNS_BLOCKDIM_Y

\* line 215: baseY >= -i * COLUMNS_BLOCKDIM_Y, line 228: imageH - baseY > i * COLUMNS_BLOCKDIM_Y
ColumnsHaloGuard(g, l, i) ==
    IF i \in ColumnsUpperSteps
    THEN ColumnsBaseY(g, l) >= 0 - i * COLUMNS_BLOCKDIM_Y
    ELSE imageH - ColumnsBaseY(g, l) > i * COLUMNS_BLOCKDIM_Y

ColumnsSrcIdx(g, l, i) == ColumnsBase(g, l) + i * COLUMNS_BLOCKDIM_Y * imageW

\* the positions the lane reads: d_Src + i * COLUMNS_BLOCKDIM_Y * pitch is
\* row baseY + i * COLUMNS_BLOCKDIM_Y of column baseX
ColumnsReads(g, l) ==
    {<<ColumnsBaseX(g, l), ColumnsBaseY(g, l) + i * COLUMNS_BLOCKDIM_Y>> : i \in
        {i \in ColumnsMainSteps \cup ColumnsUpperSteps \cup ColumnsLowerSteps :
            i \in ColumnsMainSteps \/ ColumnsHaloGuard(g, l, i)}}

\* the value step i stores into s_Data[local_x][local_y + i * COLUMNS_BLOCKDIM_Y]
ColumnsLoadVal(g, l, i) ==
    IF i \in ColumnsMainSteps \/ ColumnsHaloGuard(g, l, i)
    THEN SrcAt(ColumnsSrcIdx(g, l, i))
    ELSE 0

\* the cells s_Data[local_x][local_y + i * COLUMNS_BLOCKDIM_Y] the lane stores
ColumnsCells(l) ==
    {<<l[1], l[2] + i * COLUMNS_BLOCKDIM_Y>> :
        i \in ColumnsMainSteps \cup ColumnsUpperSteps \cup ColumnsLowerSteps}

\* lines 202-231
ColumnsLoad(g, l) ==
    /\ cstate = "cols" /\ clane[g][l] = "load"
    /\ s_Data' = [s_Data EXCEPT ![g][l[1]] =
            [c \in DOMAIN @ |->
                IF (c - l[2]) % COLUMNS_BLOCKDIM_Y = 0 /\ c >= l[2]
                   /\ (c - l[2]) \div COLUMNS_BLOCKDIM_Y
                        < COLUMNS_RESULT_STEPS + 2 * COLUMNS_HALO_STEPS
                THEN ColumnsLoadVal(g, l, (c - l[2]) \div COLUMNS_BLOCKDIM_Y)
                ELSE @[c]]]
    /\ srcReads' = srcReads \cup ColumnsReads(g, l)
    /\ tileWrites' = [tileWrites EXCEPT ![g] = CountStores(@, ColumnsCells(l))]
    /\ clane' = [clane EXCEPT ![g][l] = "bar"]
    /\ UNCHANGED <<imageW, imageH, c_Kernel, d_Src, d_Dst, cstate, ncalls, cpre,
                   dstWrites>>

\* a mutation of ColumnsSum: the coefficients are applied in reverse order
ColumnsSumReversed(g, l, i) ==
    SumOver([j \in Taps |->
                c_Kernel[KERNEL_RADIUS + j]
                    * TileAt(s_Data[g], l[1], l[2] + i * COLUMNS_BLOCKDIM_Y + j)],
            Taps)

\* lines 244-251
ColumnsSum(g, l, i) ==
    SumOver([j \in Taps |->
                c_Kernel[KERNEL_RADIUS - j]
                    * TileAt(s_Data[g], l[1], l[2] + i * COLUMNS_BLOCKDIM_Y + j)],
            Taps)

\* the d_Dst index of line 253
ColumnsDstIdx(g, l, i) == ColumnsBase(g, l) + i * COLUMNS_BLOCKDIM_Y * imageW

\* lines 242-254
ColumnsCompute(g, l) ==
    /\ cstate = "cols" /\ clane[g][l] = "compute"
    /\ d_Dst' = [idx \in DOMAIN d_Dst |->
            IF \E i \in ColumnsMainSteps : idx = ColumnsDstIdx(g, l, i)
            THEN ColumnsSum(g, l,
                     CHOOSE i \in ColumnsMainSteps : idx = ColumnsDstIdx(g, l, i))
            ELSE d_Dst[idx]]
    /\ dstWrites' =
            CountWrites(dstWrites, {ColumnsDstIdx(g, l, i) : i \in ColumnsMainSteps})
    /\ clane' = [clane EXCEPT ![g][l] = "done"]
    /\ UNCHANGED <<imageW, imageH, c_Kernel, d_Src, cstate, ncalls, s_Data, cpre,
                   srcReads, tileWrites>>

\* the in-order queue has run the pass to its end
PassComplete ==
    /\ cstate \in {"rows", "cols"}
    /\ \A g \in DOMAIN clane : \A l \in DOMAIN clane[g] : clane[g][l] = "done"
    /\ cstate' = "idle"
    /\ UNCHANGED <<imageW, imageH, c_Kernel, d_Src, d_Dst, ncalls, s_Data, clane, cpre,
                   srcReads, tileWrites, dstWrites>>

ConvInit ==
    /\ \E sh \in Shapes : imageW = sh[1] /\ imageH = sh[2]
    /\ \E p \in 1 .. MaxImage : d_Src = ImageCase(p, imageW * imageH)
    /\ d_Dst = [idx \in DOMAIN d_Src |-> Uninit]
    /\ c_Kernel = [t \in 0 .. (KERNEL_LENGTH - 1) |-> Uninit]
    /\ cstate = "idle" /\ ncalls = 0
    /\ s_Data = <<>> /\ clane = <<>> /\ cpre = <<>>
    /\ srcReads = {} /\ tileWrites = <<>> /\ dstWrites = <<>>
    /\ A = <<>> /\ b = <<>> /\ x = <<>> /\ x_new = <<>> /\ d_sum = 0
    /\ KernelIdle
    /\ DriverIdle
    /\ FinalIdle
    /\ AtomicIdle

ConvNext ==
    /\ \/ \E q \in 0 .. MaxKernel : SetConvolutionKernel(KernelCase(q))
       \/ convolutionRowsGPU
       \/ convolutionColumnsGPU
       \/ \E g \in DOMAIN clane : \E l \in DOMAIN clane[g] : RowsLoad(g, l)
       \/ \E g \in DOMAIN clane : \E l \in DOMAIN clane[g] : RowsCompute(g, l)
       \/ \E g \in DOMAIN clane : \E l \in DOMAIN clane[g] : ColumnsLoad(g, l)
       \/ \E g \in DOMAIN clane : \E l \in DOMAIN clane[g] : ColumnsCompute(g, l)
       \/ \E g \in DOMAIN clane : ConvBarrier(g)
       \/ PassComplete
    /\ UNCHANGED <<jacobiVars, kernelVars, driverVars, finalVars, atomicVars>>

SpecConv == ConvInit /\ [][ConvNext]_vars

(***************************************************************************)
(* Claims about the convolution passes (SpecConv).                         *)
(***************************************************************************)
\* the asserts of a pass of this kind hold
Admitted(kind) == IF kind = "rows" THEN RowsPreconditions ELSE ColumnsPreconditions

\* every lane of the last pass launched has finished
Finished(kind) ==
    /\ cpre # <<>> /\ cpre.kind = kind
    /\ cstate \in {kind, "idle"}
    /\ \A g \in DOMAIN clane : \A l \in DOMAIN clane[g] : clane[g][l] = "done"

\* every lane of the last pass launched has finished, and the pass was
\* launched under its preconditions
PassFinished(kind) ==
    /\ Admitted(kind)
    /\ cpre # <<>> /\ cpre.kind = kind
    /\ cstate \in {kind, "idle"}
    /\ \A g \in DOMAIN clane : \A l \in DOMAIN clane[g] : clane[g][l] = "done"

\* the source pixel (px, py), 0 outside the image
Src0(src, px, py) ==
    IF px >= 0 /\ px < imageW /\ py >= 0 /\ py < imageH
    THEN src[py * imageW + px] ELSE 0

\* C9: after a row pass launched under its preconditions, every pixel
\* satisfies
\* dst(px, py) = SUM_{j = -R .. R} kernel[R - j] * src0(px + j, py)
\* with src0 zero outside columns 0 .. imageW - 1.
C9_RowPassIsZeroPaddedConvolution ==
    PassFinished("rows") =>
        \A px \in 0 .. (imageW - 1), py \in 0 .. (imageH - 1) :
            d_Dst[py * imageW + px] =
                SumOver([j \in Taps |->
                            cpre.c_Kernel[KERNEL_RADIUS - j] * Src0(cpre.d_Src, px + j, py)],
                        Taps)

\* C9 witness: a finished row pass over an image two tiles wide and more
\* than one row high, with distinct pixels and distinct non-zero weights.
C9_Witness ==
    /\ PassFinished("rows")
    /\ imageW = 2 * ROWS_RESULT_STEPS * ROWS_BLOCKDIM_X
    /\ imageH > 1
    /\ cpre.d_Src = ImageCase(1, imageW * imageH)
    /\ cpre.c_Kernel = KernelCase(1)

\* C10: after a column pass launched under its preconditions, every pixel
\* satisfies
\* dst(px, py) = SUM_{j = -R .. R} kernel[R - j] * src0(px, py + j)
\* with src0 zero outside rows 0 .. imageH - 1.
C10_ColumnPassIsZeroPaddedConvolution ==
    PassFinished("cols") =>
        \A px \in 0 .. (imageW - 1), py \in 0 .. (imageH - 1) :
            d_Dst[py * imageW + px] =
                SumOver([j \in Taps |->
                            cpre.c_Kernel[KERNEL_RADIUS - j] * Src0(cpre.d_Src, px, py + j)],
                        Taps)

\* C10 witness: a finished column pass over an image two tiles high, with
\* distinct pixels and distinct non-zero weights.
C10_Witness ==
    /\ PassFinished("cols")
    /\ imageH = 2 * COLUMNS_RESULT_STEPS * COLUMNS_BLOCKDIM_Y
    /\ cpre.d_Src = ImageCase(1, imageW * imageH)
    /\ cpre.c_Kernel = KernelCase(1)

\* the lanes of the pass in flight that have finished their load phase
Loaded(kind) ==
    {gl \in UNION {{<<g, l>> : l \in DOMAIN clane[g]} : g \in DOMAIN clane} :
        cpre # <<>> /\ cpre.kind = kind /\ clane[gl[1]][gl[2]] # "load"}

\* C11: under the preconditions no lane of the row pass reads d_Src at a
\* column < 0 or >= imageW and no lane of the column pass reads it at a row
\* < 0 or >= imageH: every position read lies in the image, and a halo cell
\* whose position lies outside holds 0 without a read.
C11_NoReadOutsideImage ==
    /\ \A r \in srcReads :
            r[1] >= 0 /\ r[1] < imageW /\ r[2] >= 0 /\ r[2] < imageH
    /\ \A gl \in Loaded("rows") :
        \A i \in RowsLeftSteps \cup RowsRightSteps :
            LET col == RowsBaseX(gl[1], gl[2]) + i * ROWS_BLOCKDIM_X
            IN  (col < 0 \/ col >= imageW) =>
                    s_Data[gl[1]][gl[2][2]][gl[2][1] + i * ROWS_BLOCKDIM_X] = 0
    /\ \A gl \in Loaded("cols") :
        \A i \in ColumnsUpperSteps \cup ColumnsLowerSteps :
            LET row == ColumnsBaseY(gl[1], gl[2]) + i * COLUMNS_BLOCKDIM_Y
            IN  (row < 0 \/ row >= imageH) =>
                    s_Data[gl[1]][gl[2][1]][gl[2][2] + i * COLUMNS_BLOCKDIM_Y] = 0

\* C11 witness: a column pass over an image two tiles high has loaded every
\* tile; every pixel has been read and the halo above the image holds 0.
C11_Witness ==
    /\ cstate = "cols"
    /\ imageH = 2 * COLUMNS_RESULT_STEPS * COLUMNS_BLOCKDIM_Y
    /\ Loaded("cols") = ColumnsGroups \X ColumnsLanes
    /\ srcReads = (0 .. (imageW - 1)) \X (0 .. (imageH - 1))
    /\ s_Data[<<0, 0>>][0][0] = 0

\* the locations of the imageW x imageH destination
Pixels == 0 .. (imageW * imageH - 1)

\* C12: in one dispatch of either pass no location outside the destination
\* image is written and no location is written twice, and when a dispatch
\* made under the preconditions has finished every pixel has been written
\* exactly once (each store is counted for the one lane that makes it).
C12_EveryPixelWrittenOnce ==
    cpre # <<>> =>
        /\ DOMAIN dstWrites \subseteq Pixels
        /\ \A idx \in DOMAIN dstWrites : dstWrites[idx] = 1
        /\ (PassFinished("rows") \/ PassFinished("cols")) => DOMAIN dstWrites = Pixels

\* C12 witness: a row pass run by several groups has finished and has
\* stored every pixel.
C12_Witness ==
    /\ PassFinished("rows")
    /\ Cardinality(RowsGroups) > 1
    /\ DOMAIN dstWrites = Pixels
    /\ \A idx \in Pixels : d_Dst[idx] # Uninit

\* the scratch cells <<r, c>> a lane reads in its compute phase
RowsTaps(l) ==
    {<<l[2], l[1] + i * ROWS_BLOCKDIM_X + j>> : i \in RowsMainSteps, j \in Taps}
ColumnsTaps(l) ==
    {<<l[1], l[2] + i * COLUMNS_BLOCKDIM_Y + j>> : i \in ColumnsMainSteps, j \in Taps}
TapsOf(l) == IF cstate = "rows" THEN RowsTaps(l) ELSE ColumnsTaps(l)

\* the cells of a group's tile
TileCells(g) == UNION {{<<r, c>> : c \in DOMAIN s_Data[g][r]} : r \in DOMAIN s_Data[g]}

\* the padding cells of the column tile, the "+ 1" of its second dimension
PaddingCells(g) ==
    IF cstate = "cols"
    THEN {rc \in TileCells(g) :
            rc[2] = (COLUMNS_RESULT_STEPS + 2 * COLUMNS_HALO_STEPS) * COLUMNS_BLOCKDIM_Y}
    ELSE {}

\* a lane past the barrier reads only cells of the tile that have been
\* stored, and every lane of its group has finished its load phase
ReadsAfterStores ==
    cstate \in {"rows", "cols"} =>
        \A g \in DOMAIN clane : \A l \in DOMAIN clane[g] :
            clane[g][l] \in {"compute", "done"} =>
                /\ \A m \in DOMAIN clane[g] : clane[g][m] \in {"compute", "done"}
                /\ \A rc \in TapsOf(l) :
                        /\ rc \in TileCells(g)
                        /\ tileWrites[g][rc[1]][rc[2]] >= 1

\* the cells of S are stored at most once, and exactly once when every lane
\* of the group has finished its load phase
StoredOnce(g, S) ==
    IF \A m \in DOMAIN clane[g] : clane[g][m] # "load"
    THEN \A rc \in S : tileWrites[g][rc[1]][rc[2]] = 1
    ELSE \A rc \in S : tileWrites[g][rc[1]][rc[2]] <= 1

\* C13 as stated: in both kernels, for every interleaving, every scratch
\* cell read in the compute phase has been written in the load phase, no
\* lane reads before the barrier that follows all load-phase writes, and
\* each scratch cell of the tile is written by exactly one lane.
C13_EveryScratchCellWrittenOnce ==
    /\ ReadsAfterStores
    /\ cstate \in {"rows", "cols"} => \A g \in DOMAIN clane : StoredOnce(g, TileCells(g))

\* C13 amended: as above, but exactly one lane writes each scratch cell
\* other than the padding cells of the column tile; the padding cells are
\* written by no lane and read by none.
C13_ScratchWrittenOnceExceptPadding ==
    /\ ReadsAfterStores
    /\ cstate \in {"rows", "cols"} =>
        \A g \in DOMAIN clane :
            /\ StoredOnce(g, TileCells(g) \ PaddingCells(g))
            /\ \A rc \in PaddingCells(g) :
                    /\ tileWrites[g][rc[1]][rc[2]] = 0
                    /\ \A l \in DOMAIN clane[g] : rc \notin TapsOf(l)

\* C13 witness: a group of the column pass is past its barrier with some
\* lanes still computing; its padding cells are unwritten.
C13_Witness ==
    /\ cstate = "cols"
    /\ \E g \in DOMAIN clane :
        /\ \E l \in DOMAIN clane[g] : clane[g][l] = "compute"
        /\ \E l \in DOMAIN clane[g] : clane[g][l] = "done"
        /\ PaddingCells(g) # {}
        /\ \A rc \in TileCells(g) \ PaddingCells(g) : tileWrites[g][rc[1]][rc[2]] = 1

\* SUM_p SUM_q kv[R - p] * kv[R - q] * src0(px + q, py + p)
Conv2D(kv, src, px, py) ==
    SumOver([p \in Taps |->
                SumOver([q \in Taps |->
                            kv[KERNEL_RADIUS - p] * kv[KERNEL_RADIUS - q]
                                * Src0(src, px + q, py + p)],
                        Taps)],
            Taps)

\* the pass that has finished is a column pass on the output of a row
\* pass, both made with the same coefficients
RowsThenColumns ==
    /\ PassFinished("cols")
    /\ cpre.prev # <<>> /\ cpre.prev.kind = "rows" /\ RowsPreconditions
    /\ cpre.prev.c_Kernel = cpre.c_Kernel

\* C19: separability: a row pass from src into a buffer followed by a
\* column pass from that buffer into dst, both with coefficients kv, leaves
\* dst(px, py) = SUM_{p, q = -R .. R} kv[R - p] * kv[R - q] * src0(px + q, py + p)
\* at every pixel, src0 being src padded with zeros.
C19_RowsThenColumnsIs2DConvolution ==
    RowsThenColumns =>
        \A px \in 0 .. (imageW - 1), py \in 0 .. (imageH - 1) :
            d_Dst[py * imageW + px] = Conv2D(cpre.c_Kernel, cpre.prev.d_Src, px, py)

\* C19 witness: both passes have run with the ramp coefficients on the
\* image of distinct pixels, the column pass reading what the row pass wrote.
C19_Witness ==
    /\ RowsThenColumns
    /\ cpre.c_Kernel = KernelCase(1)
    /\ cpre.prev.d_Src = ImageCase(1, imageW * imageH)
    /\ cpre.d_Src # cpre.prev.d_Src
    /\ d_Dst # cpre.d_Src

\* 1 at the centre index KERNEL_RADIUS, 0 elsewhere
IdentityKernel == [t \in 0 .. (KERNEL_LENGTH - 1) |-> IF t = KERNEL_RADIUS THEN 1 ELSE 0]

\* C20: with the identity coefficients the row pass alone and the column
\* pass alone each leave the destination equal to the source at every
\* pixel, the pixels next to the zero-padded halo included.
C20_IdentityKernelCopies ==
    ((PassFinished("rows") \/ PassFinished("cols")) /\ cpre.c_Kernel = IdentityKernel) =>
        \A idx \in Pixels : d_Dst[idx] = cpre.d_Src[idx]

\* C20 witness: a row pass over an image two tiles wide has finished with
\* the identity coefficients on the image of distinct non-zero pixels.
C20_Witness ==
    /\ PassFinished("rows")
    /\ cpre.c_Kernel = IdentityKernel
    /\ imageW = 2 * ROWS_RESULT_STEPS * ROWS_BLOCKDIM_X
    /\ cpre.d_Src = ImageCase(1, imageW * imageH)
    /\ d_Dst = cpre.d_Src


\* the number of passes launched so far
RECURSIVE NLaunches(_)
NLaunches(c) == IF c = <<>> THEN 0 ELSE 1 + NLaunches(c.prev)

KernelUnset == [t \in 0 .. (KERNEL_LENGTH - 1) |-> Uninit]

\* a step that launches a pass
LaunchStep == cstate = "idle" /\ cstate' \in {"rows", "cols"}

C26_PassLeavesSourceAndCoefficients ==
    /\ [](cstate \in {"rows", "cols"} => d_Src = cpre.d_Src)
    /\ [][/\ cstate \in {"rows", "cols"} => (d_Src' = d_Src /\ c_Kernel' = c_Kernel)
          /\ LaunchStep => c_Kernel' = c_Kernel
          /\ c_Kernel' # c_Kernel =>
                /\ cstate = "idle" /\ cstate' = "idle"
                /\ UNCHANGED <<d_Src, d_Dst>>
                /\ DOMAIN c_Kernel' = 0 .. (KERNEL_LENGTH - 1)
                /\ \E q \in 0 .. MaxKernel :
                        \A t \in 0 .. (KERNEL_LENGTH - 1) : c_Kernel'[t] = KernelCase(q)[t]]_vars

\* C26 witness: a row pass with the ramp coefficients has finished and has
\* stored every pixel of a destination that differs from the source; the
\* source and the coefficients are those of the launch.
C26_Witness ==
    /\ PassFinished("rows")
    /\ DOMAIN dstWrites = Pixels
    /\ d_Dst # d_Src
    /\ d_Src = ImageCase(1, imageW * imageH)
    /\ c_Kernel = KernelCase(1)


\* the scratch columns local_x + i * ROWS_BLOCKDIM_X + j and the scratch
\* indices local_y + i * COLUMNS_BLOCKDIM_Y + j of a lane's result steps i
\* and taps j in -r .. r
RowsScratchCols(l, r) ==
    {l[1] + i * ROWS_BLOCKDIM_X + j : i \in RowsMainSteps, j \in (0 - r) .. r}
ColumnsScratchRows(l, r) ==
    {l[2] + i * COLUMNS_BLOCKDIM_Y + j : i \in ColumnsMainSteps, j \in (0 - r) .. r}

\* C29: for the lanes of a pass, the scratch indices of all result steps
\* and taps within radius r lie in 0 .. (RESULT_STEPS + 2 * HALO_STEPS) *
\* BLOCKDIM - 1 exactly when BLOCKDIM * HALO_STEPS >= r (r up to two past
\* the halo width); with r = KERNEL_RADIUS they are the cells the lanes
\* read, all inside the tile, and the padding column of the column
\* kernel's tile is neither read nor written.
C29_ScratchInBoundsIffHaloCoversRadius ==
    /\ cstate = "rows" =>
            \A g \in DOMAIN clane :
                /\ \A r \in 0 .. (ROWS_BLOCKDIM_X * ROWS_HALO_STEPS + 2) :
                        (\A l \in DOMAIN clane[g] :
                            RowsScratchCols(l, r) \subseteq
                                0 .. ((ROWS_RESULT_STEPS + 2 * ROWS_HALO_STEPS)
                                        * ROWS_BLOCKDIM_X - 1))
                        <=> (ROWS_BLOCKDIM_X * ROWS_HALO_STEPS >= r)
                /\ \A l \in DOMAIN clane[g] :
                        /\ RowsTaps(l) = {<<l[2], c>> : c \in RowsScratchCols(l, KERNEL_RADIUS)}
                        /\ ROWS_BLOCKDIM_X * ROWS_HALO_STEPS >= KERNEL_RADIUS =>
                                RowsTaps(l) \subseteq TileCells(g)
    /\ cstate = "cols" =>
            \A g \in DOMAIN clane :
                /\ \A r \in 0 .. (COLUMNS_BLOCKDIM_Y * COLUMNS_HALO_STEPS + 2) :
                        (\A l \in DOMAIN clane[g] :
                            ColumnsScratchRows(l, r) \subseteq
                                0 .. ((COLUMNS_RESULT_STEPS + 2 * COLUMNS_HALO_STEPS)
                                        * COLUMNS_BLOCKDIM_Y - 1))
                        <=> (COLUMNS_BLOCKDIM_Y * COLUMNS_HALO_STEPS >= r)
                /\ \A l \in DOMAIN clane[g] :
                        /\ ColumnsTaps(l) =
                                {<<l[1], c>> : c \in ColumnsScratchRows(l, KERNEL_RADIUS)}
                        /\ COLUMNS_BLOCKDIM_Y * COLUMNS_HALO_STEPS >= KERNEL_RADIUS =>
                                ColumnsTaps(l) \subseteq (TileCells(g) \ PaddingCells(g))
                /\ \A rc \in PaddingCells(g) : tileWrites[g][rc[1]][rc[2]] = 0

\* C29 witness: every lane of a group of the column pass has read its taps
\* and finished; the tile's last cell before the padding has been stored
\* and the padding has not.
C29_Witness ==
    /\ cstate = "cols"
    /\ \E g \in DOMAIN clane :
        /\ \A l \in DOMAIN clane[g] : clane[g][l] = "done"
        /\ PaddingCells(g) # {}
        /\ \A rc \in PaddingCells(g) :
                /\ tileWrites[g][rc[1]][rc[2]] = 0
                /\ tileWrites[g][rc[1]][rc[2] - 1] = 1

====
